---- MODULE Spec2Model ----
(***************************************************************************)
(* BasicMemoryAgent of Open-LLM-VTuber: the conversation memory and the    *)
(* search-augmented chat loop (chat_with_memory), modelled from            *)
(* src/src/open_llm_vtuber/agent/agents/basic_memory_agent.py, and the     *)
(* tools beside it: search_web (agent/tools/web_search_tool.py),           *)
(* EmailSender (email_sender.py) and save_conversation_message             *)
(* (conversations/recording_utils.py).                                     *)
(*                                                                         *)
(* A text is a sequence of one-character strings, so that concatenation,   *)
(* the directive pattern and strip() are computed character by character.  *)
(***************************************************************************)
EXTENDS Integers, Sequences, FiniteSets, TLC

(***************************************************************************)
(* Bounds of the model.                                                    *)
(***************************************************************************)
\* turns started on the agent when nothing interrupts them
MaxTurns == 2
\* turns started on the agent when interrupts are handled in between
MaxInterruptedTurns == 1
\* calls of handle_interrupt
MaxInterrupts == 2
\* turns, history loads and group-context injections together, where all
\* the operations on the memory are mixed
MaxMemoryOps == 1

\* results the provider hands back for one search
MaxProviderResults == 2

\* the memory length up to which direct calls of _add_message are explored
MaxAppended == 2

(***************************************************************************)
(* Program constants and literals.                                         *)
(***************************************************************************)
\* a ceiling one too high
MAX_SEARCH_ITERATIONS_raised == 2 + 1

MAX_SEARCH_ITERATIONS == 2

NUM_RESULTS == 3

\* the literal opening of the pattern r"\[SEARCH:\s*(.*?)\]"
TagOpen == <<"[","S","E","A","R","C","H",":">>

TagClose == "]"

\* characters matched by \s and removed by str.strip()
Whitespace == {" ", "\t", "\n", "\r"}

\* the character "." does not match
Newline == "\n"

Ellipsis == <<".",".",".">>

InterruptMarker ==
    <<"[","I","n","t","e","r","r","u","p","t","e","d"," ","b","y"," ","u",
      "s","e","r","]">>

\* the grave accent, which the prompt puts around the signal's name
Backtick == "GRAVE"

InterruptSuffix ==
    <<"\n","\n","I","f"," ","y","o","u"," ","r","e","c","e","i","v","e","d",
      " ",Backtick,"[","i","n","t","e","r","r","u","p","t","e","d"," ","b","y",
      " ","u","s","e","r","]",Backtick," ","s","i","g","n","a","l",","," ","y",
      "o","u"," ","w","e","r","e"," ","i","n","t","e","r","r","u","p","t",
      "e","d",".">>

ClipboardOpen ==
    <<"[","C","l","i","p","b","o","a","r","d"," ","c","o","n","t","e","n",
      "t",":"," ">>

GuidanceHead ==
    <<"W","e","b"," ","s","e","a","r","c","h"," ","f","o","r"," ","q","u",
      "e","r","y"," ","'">>

GuidanceMid ==
    <<"'"," ","y","i","e","l","d","e","d"," ","t","h","e"," ","f","o","l",
      "l","o","w","i","n","g"," ","r","e","s","u","l","t","s",":","\n">>

GuidanceTail ==
    <<"\n","P","l","e","a","s","e"," ","u","s","e"," ","t","h","e","s","e",
      " ","r","e","s","u","l","t","s"," ","t","o"," ","a","n","s","w","e",
      "r"," ","t","h","e"," ","u","s","e","r","'","s"," ","r","e","q","u",
      "e","s","t",".">>

\* literals of search_web
ResultOpen ==
    <<"R","e","s","u","l","t"," ">>

TitleOpen ==
    <<":","\n","T","i","t","l","e",":"," ">>

SnippetOpen ==
    <<"\n","S","n","i","p","p","e","t",":"," ">>

UrlOpen ==
    <<"\n","U","R","L",":"," ">>

NotAvailable ==
    <<"N","/","A">>

NoResultsText ==
    <<"N","o"," ","r","e","s","u","l","t","s"," ","f","o","u","n","d"," ",
      "f","o","r"," ","y","o","u","r"," ","q","u","e","r","y",".">>

SearchErrorOpen ==
    <<"A","n"," ","e","r","r","o","r"," ","o","c","c","u","r","r","e","d",
      " ","d","u","r","i","n","g"," ","t","h","e"," ","w","e","b"," ","s",
      "e","a","r","c","h",":"," ">>

Digits == <<"0","1","2","3","4","5","6","7","8","9">>

(***************************************************************************)
(* The environment: what the callers, the model and the search provider    *)
(* can hand to the agent.                                                  *)
(***************************************************************************)
\* the system prompt handed to the constructor
SystemArg == <<"S">>

\* the system prompts set_system can be handed later
SystemArgs == { <<"S">>, <<"T">> }

\* the BatchInput of a turn: texts with their source
Inputs ==
    { [texts |-> <<[source |-> "INPUT", content |-> <<"h","i">>]>>,
       images |-> << >>],
      [texts |-> <<[source |-> "INPUT", content |-> <<"q","?">>],
                   [source |-> "CLIPBOARD", content |-> <<"c">>]>>,
       images |-> << >>] }

\* BatchInputs that carry images
ImageInputs ==
    { [texts |-> <<[source |-> "INPUT", content |-> <<"h","i">>]>>,
       images |-> <<[source |-> "CAMERA", data |-> <<"d">>]>>],
      [texts |-> << >>,
       images |-> <<[source |-> "SCREEN", data |-> <<"e">>],
                    [source |-> "UPLOAD", data |-> <<"f">>]>>] }

\* token streams of the model: a stream is a finite sequence of tokens,
\* a token is a text
PlainStream == << <<"o">>, <<"k">> >>

DirectiveStream == << <<"a">>, TagOpen, <<" ","q"," ">>, <<TagClose>> >>

EmptyStream == << >>

ModelStreams == {PlainStream, DirectiveStream, EmptyStream}

\* streams whose text looks like a directive that the pattern rejects: no
\* closing bracket, and the tag in lower case
NoCloseStream == << <<"a">>, TagOpen, <<" ","q">> >>

LowerCaseStream == << <<"[","s","e","a","r","c","h",":"," ","q","]">> >>

MalformedStreams == {NoCloseStream, LowerCaseStream}

\* outputs with two directives one after the other, "[SEARCH: q][SEARCH:r]"
SeveralStream == << TagOpen, <<" ","q",TagClose>>, TagOpen, <<"r",TagClose>> >>

SeveralStreams == {SeveralStream, PlainStream}

\* outputs whose directive has no payload, "[SEARCH:]" and "[SEARCH:   ]"
BlankStream == << TagOpen, <<TagClose>> >>

SpacesStream == << TagOpen, <<" "," "," ",TagClose>> >>

BlankStreams == {BlankStream, SpacesStream, PlainStream}

\* the models an agent can be given, by the streams they hand back
Llms == {"well_formed", "malformed", "several", "blank"}

\* llm.chat_completion(messages, system): the streams the model can hand
\* back
chat_completion(model) ==
    CASE model = "well_formed" -> ModelStreams
      [] model = "malformed" -> MalformedStreams
      [] model = "several" -> SeveralStreams
      [] model = "blank" -> BlankStreams

\* the texts handle_interrupt can be told the user heard
HeardTexts == { << >>, <<"o">> }

Tasks == {1, 2}

\* the records get_history can hand back: a role and a content each
Histories ==
    { << >>,
      << [role |-> "human", content |-> <<"x">>],
         [role |-> "ai", content |-> <<"y">>],
         [role |-> "tool", content |-> <<"z">>] >> }

\* the template prompt_loader hands back for group_conversation_prompt: its
\* characters and its two replacement fields
GroupPrompt == <<"g", "{human_name}", "&", "{other_ais}">>

HumanNames == { <<"H">> }

AiParticipants == { << <<"A">>, <<"B">> >> }

(***************************************************************************)
(* Pure helpers.                                                           *)
(***************************************************************************)
RECURSIVE Concat(_)
\* "".join(tokens): the accumulation raw += token over a whole stream
Concat(tokens) ==
    IF tokens = << >> THEN << >> ELSE Head(tokens) \o Concat(Tail(tokens))

RECURSIVE Join(_, _)
\* sep.join(parts)
Join(parts, sep) ==
    IF parts = << >> THEN << >>
    ELSE IF Len(parts) = 1 THEN parts[1]
    ELSE parts[1] \o sep \o Join(Tail(parts), sep)

RECURSIVE lstrip(_)
lstrip(s) ==
    IF s # << >> /\ Head(s) \in Whitespace THEN lstrip(Tail(s)) ELSE s

RECURSIVE rstrip(_)
rstrip(s) ==
    IF s # << >> /\ s[Len(s)] \in Whitespace
    THEN rstrip(SubSeq(s, 1, Len(s) - 1)) ELSE s

\* strip() that forgets the trailing whitespace
strip_leading_only(s) == lstrip(s)

\* str.strip()
strip(s) == rstrip(lstrip(s))

\* the tag compared without regard to letter case, as re.IGNORECASE would
TagAt_ignoring_case(s, i) ==
    LET upper(c) ==
            CASE c = "s" -> "S" [] c = "e" -> "E" [] c = "a" -> "A"
              [] c = "r" -> "R" [] c = "c" -> "C" [] c = "h" -> "H"
              [] OTHER -> c
    IN  /\ i + Len(TagOpen) - 1 <= Len(s)
        /\ [k \in 1 .. Len(TagOpen) |-> upper(s[i + k - 1])] = TagOpen

\* the literal "[SEARCH:" stands at position i of s
TagAt(s, i) ==
    /\ i + Len(TagOpen) - 1 <= Len(s)
    /\ SubSeq(s, i, i + Len(TagOpen) - 1) = TagOpen

\* \s* is greedy: the position after the run of whitespace that starts at p
RECURSIVE skip_whitespace(_, _)
skip_whitespace(s, p) ==
    IF p <= Len(s) /\ s[p] \in Whitespace THEN skip_whitespace(s, p + 1)
    ELSE p

\* (.*?)\] is lazy: the position of the first closing bracket at or after p
\* that only characters "." accepts separate from p; 0 when there is none
RECURSIVE group_end(_, _)
group_end(s, p) ==
    IF p > Len(s) THEN 0
    ELSE IF s[p] = TagClose THEN p
    ELSE IF s[p] = Newline THEN 0
    ELSE group_end(s, p + 1)

\* backtracking of \s* from the group start g down to b, the position
\* after the tag: the start of the group of the first attempt that matches,
\* 0 when none does
RECURSIVE group_start(_, _, _)
group_start(s, b, g) ==
    IF group_end(s, g) # 0 THEN g
    ELSE IF g > b THEN group_start(s, b, g - 1)
    ELSE 0

\* the match that starts at position i, as the pair of the positions where
\* the group starts and where the closing bracket stands; << >> when the
\* pattern does not match at i
match_at(s, i) ==
    IF ~TagAt(s, i) THEN << >>
    ELSE IF group_start(s, i + Len(TagOpen),
                        skip_whitespace(s, i + Len(TagOpen))) = 0
         THEN << >>
         ELSE << group_start(s, i + Len(TagOpen),
                             skip_whitespace(s, i + Len(TagOpen))),
                 group_end(s, group_start(s, i + Len(TagOpen),
                             skip_whitespace(s, i + Len(TagOpen)))) >>

\* the scan of re.search from position i on: the leftmost match
RECURSIVE search_from(_, _)
search_from(s, i) ==
    IF i > Len(s) THEN [found |-> FALSE, group |-> << >>]
    ELSE IF match_at(s, i) # << >>
         THEN [found |-> TRUE,
               group |-> SubSeq(s, match_at(s, i)[1], match_at(s, i)[2] - 1)]
         ELSE search_from(s, i + 1)

\* a search that reports the last match of the text, not the leftmost
search_match_last(s) ==
    IF \A i \in 1 .. Len(s) : match_at(s, i) = << >>
    THEN [found |-> FALSE, group |-> << >>]
    ELSE LET i == CHOOSE j \in 1 .. Len(s) :
                    /\ match_at(s, j) # << >>
                    /\ \A h \in (j + 1) .. Len(s) : match_at(s, h) = << >>
         IN  [found |-> TRUE,
              group |-> SubSeq(s, match_at(s, i)[1], match_at(s, i)[2] - 1)]

\* re.search(r"\[SEARCH:\s*(.*?)\]", s); group is group(1)
search_match(s) == search_from(s, 1)

\* the f-string search_context_message
search_context_message(search_query, search_results_str) ==
    GuidanceHead \o search_query \o GuidanceMid \o search_results_str
        \o GuidanceTail

RECURSIVE message_parts(_)
\* the list message_parts built by _to_text_prompt from the texts
message_parts(texts) ==
    IF texts = << >> THEN << >>
    ELSE LET t == Head(texts)
         IN  (IF t.source = "INPUT" THEN << t.content >>
              ELSE IF t.source = "CLIPBOARD"
                   THEN << ClipboardOpen \o t.content \o <<"]">> >>
                   ELSE << >>)
             \o message_parts(Tail(texts))

\* the dict source_desc of _to_text_prompt
source_desc(source) ==
    CASE source = "CAMERA" -> <<"c","a","p","t","u","r","e","d"," ","f","r","o","m"," ","c","a","m","e","r","a">>
      [] source = "SCREEN" -> <<"s","c","r","e","e","n","s","h","o","t">>
      [] source = "CLIPBOARD" -> <<"f","r","o","m"," ","c","l","i","p","b","o","a","r","d">>
      [] source = "UPLOAD" -> <<"u","p","l","o","a","d","e","d">>

ImagesHead == <<"\n","I","m","a","g","e","s"," ","i","n"," ","t","h","i","s"," ","m","e","s","s","a","g","e",":">>

\* the parts _to_text_prompt appends for the images: the heading, then one
\* line for each image, numbered from 1
image_parts(images) ==
    IF images = << >> THEN << >>
    ELSE << ImagesHead >>
         \o [i \in 1 .. Len(images) |->
               <<"-"," ","I","m","a","g","e"," ">> \o << Digits[i + 1] >>
                 \o <<" ","(">> \o source_desc(images[i].source) \o <<")">>]

to_text_prompt(input_data) ==
    Join(message_parts(input_data.texts) \o image_parts(input_data.images),
         <<"\n">>)

\* the content of the user_message of _to_messages: a list of parts, the
\* prompt text first and then the images, when the input has images, and
\* the prompt text when it has none
user_content(input_data) ==
    IF input_data.images # << >>
    THEN << [type |-> "text", text |-> to_text_prompt(input_data)] >>
         \o [i \in 1 .. Len(input_data.images) |->
               [type |-> "image_url",
                image_url |-> [url |-> input_data.images[i].data,
                               detail |-> "auto"]]]
    ELSE to_text_prompt(input_data)

RECURSIVE text_parts(_)
\* the loop of _add_message over a list message: the texts of the items
\* whose type is "text", one after the other
text_parts(message) ==
    IF message = << >> THEN << >>
    ELSE (IF Head(message).type = "text" THEN Head(message).text ELSE << >>)
         \o text_parts(Tail(message))

\* a text_content that is the text of the first part alone
message_text_first_only(message, is_list) ==
    IF ~is_list THEN message
    ELSE IF message # << >> /\ Head(message).type = "text"
         THEN Head(message).text
         ELSE << >>

\* text_content of _add_message; is_list is isinstance(message, list)
message_text(message, is_list) ==
    IF is_list THEN text_parts(message) ELSE message

\* the message_data dict of _add_message for a text and no display_text
message_data(message, role) == [role |-> role, content |-> message]

\* no display_text argument
NoDisplay == [given |-> FALSE, name |-> << >>, avatar |-> << >>]

\* the display_text arguments: none, or a name and an avatar that can
\* each be empty
DisplayTexts ==
    {NoDisplay}
      \cup { [given |-> TRUE, name |-> n, avatar |-> a] :
               n \in {<< >>, <<"n">>}, a \in {<< >>, <<"v">>} }

\* message_data after "if display_text:": the name and the avatar are
\* added when they are truthy
with_display(data, display_text) ==
    IF ~display_text.given THEN data
    ELSE IF display_text.name # << >> /\ display_text.avatar # << >>
         THEN [role |-> data.role, content |-> data.content,
               name |-> display_text.name, avatar |-> display_text.avatar]
    ELSE IF display_text.name # << >>
         THEN [role |-> data.role, content |-> data.content,
               name |-> display_text.name]
    ELSE IF display_text.avatar # << >>
         THEN [role |-> data.role, content |-> data.content,
               avatar |-> display_text.avatar]
    ELSE data

RECURSIVE format(_, _, _)
\* str.format on the template with human_name= and other_ais=
format(template, human_name, other_ais) ==
    IF template = << >> THEN << >>
    ELSE (IF Head(template) = "{human_name}" THEN human_name
          ELSE IF Head(template) = "{other_ais}" THEN other_ais
          ELSE << Head(template) >>)
         \o format(Tail(template), human_name, other_ais)

\* the group_context of start_group_conversation
group_context(human_name, ai_participants) ==
    format(GroupPrompt, human_name, Join(ai_participants, <<",", " ">>))

\* the entries set_memory_from_history appends for the records
from_history(messages) ==
    [i \in 1 .. Len(messages) |->
        [role |-> IF messages[i].role = "human" THEN "user" ELSE "assistant",
         content |-> messages[i].content]]

\* set_system: the prompt stored in _system
system_for(sys, method) ==
    IF method = "user" THEN sys \o InterruptSuffix ELSE sys

(***************************************************************************)
(* search_web (agent/tools/web_search_tool.py).  The provider is           *)
(* DDGS().text: it hands back a list of dicts, a lazy iterator of dicts    *)
(* (which is true even when it yields nothing), None, or it raises.  A     *)
(* dict is a function from the keys it holds to texts.                     *)
(***************************************************************************)
ResultKeys == {"title", "body", "href"}

\* the texts a result can hold under a key
FieldTexts(key) ==
    IF key = "title" THEN { <<"a">>, <<"b">> }
    ELSE IF key = "body" THEN { <<"c">> }
    ELSE { <<"d">> }

ProviderResults ==
    UNION { { result \in [keys -> UNION { FieldTexts(key) : key \in keys }] :
                \A key \in keys : result[key] \in FieldTexts(key) } :
            keys \in SUBSET ResultKeys }

ResultLists ==
    UNION { [1 .. n -> ProviderResults] : n \in 0 .. MaxProviderResults }

\* the messages of the exceptions the provider raises
ProviderErrors == { <<"e">> }

ProviderOutcomes ==
    { [kind |-> kind, results |-> results, message |-> << >>] :
         kind \in {"list", "iterator"}, results \in ResultLists }
    \cup { [kind |-> "none", results |-> << >>, message |-> << >>] }
    \cup { [kind |-> "raise", results |-> << >>, message |-> message] :
             message \in ProviderErrors }

\* what the provider answers within a turn: one result, no result, or an
\* exception
TurnOutcomes ==
    { [kind |-> "list", results |-> << [title |-> <<"a">>] >>,
       message |-> << >>],
      [kind |-> "list", results |-> << >>, message |-> << >>],
      [kind |-> "raise", results |-> << >>, message |-> <<"e">>] }

Queries == { <<"q">> }

\* the values of num_results: the default and a smaller one
NumResults == {1, 3}

RECURSIVE str_int(_)
\* str(n) of a natural number
str_int(n) ==
    IF n < 10 THEN << Digits[n + 1] >>
    ELSE str_int(n \div 10) \o << Digits[(n % 10) + 1] >>

\* dict.get(key, default)
get(result, key, default) ==
    IF key \in DOMAIN result THEN result[key] ELSE default

\* an entry numbered with the index itself
result_entry_zero_based(i, result) ==
    ResultOpen \o str_int(i) \o TitleOpen
        \o get(result, "title", NotAvailable) \o SnippetOpen
        \o get(result, "body", NotAvailable) \o UrlOpen
        \o get(result, "href", NotAvailable) \o <<"\n">>

\* the f-string appended for the result at index i of enumerate
result_entry(i, result) ==
    ResultOpen \o str_int(i + 1) \o TitleOpen
        \o get(result, "title", NotAvailable) \o SnippetOpen
        \o get(result, "body", NotAvailable) \o UrlOpen
        \o get(result, "href", NotAvailable) \o <<"\n">>

\* the list results_output after the loop over search_results
results_output(search_results) ==
    [k \in 1 .. Len(search_results) |->
        result_entry(k - 1, search_results[k])]

\* bool(search_results)
truthy(outcome) ==
    \/ outcome.kind = "iterator"
    \/ outcome.kind = "list" /\ outcome.results # << >>

\* the try block: what it returns, or the exception that leaves it
search_try(query, num_results, outcome) ==
    IF outcome.kind = "raise"
    THEN [raised |-> TRUE, text |-> outcome.message]
    ELSE IF ~truthy(outcome)
         THEN [raised |-> FALSE, text |-> NoResultsText]
         ELSE IF results_output(outcome.results) = << >>
              THEN [raised |-> FALSE, text |-> NoResultsText]
              ELSE [raised |-> FALSE,
                    text |-> Join(results_output(outcome.results),
                                  <<"\n">>)]

\* search_web without its except clause
search_web_unguarded(query, num_results, outcome) ==
    search_try(query, num_results, outcome)

\* search_web(query, num_results) when the provider answers with outcome:
\* the text returned; raised says that an exception left the function, and
\* text is then its message
search_web(query, num_results, outcome) ==
    IF search_try(query, num_results, outcome).raised
    THEN [raised |-> FALSE,
          text |-> SearchErrorOpen
                     \o search_try(query, num_results, outcome).text]
    ELSE search_try(query, num_results, outcome)

(***************************************************************************)
(* EmailSender (email_sender.py).  Its strings are not looked into, so a   *)
(* string is one value.  An SMTP call either succeeds ("ok") or raises the *)
(* exception named.                                                        *)
(***************************************************************************)
\* Python's None
None == "<None>"

\* bool(value) of a string or None
is_true(value) == value \notin {None, ""}

\* bool(number)
is_nonzero(number) == number # 0

Hosts == {"", "smtp.example.com"}

Ports == {0, 25, 465, 587}

Usernames == {None, "user@example.com"}

Passwords == {None, "password123"}

Recipients == {"recipient@example.com"}

\* the port of STARTTLS
STARTTLS_PORT == 587

DefaultFrom == "noreply@example.com"

\* the exceptions an SMTP call can raise; each is a subclass of Exception
SmtpErrors ==
    {"SMTPAuthenticationError", "SMTPConnectError", "SMTPServerDisconnected",
     "OSError"}

SmtpOutcomes == {"ok"} \cup SmtpErrors

\* except clauses that name the two SMTP errors only
caught_named_only(exception) ==
    exception \in {"SMTPAuthenticationError", "SMTPConnectError"}

\* the except clauses of send_email take the exception: the two named
\* classes, and `except Exception' for every other one
caught(exception) ==
    \/ exception \in {"SMTPAuthenticationError", "SMTPConnectError"}
    \/ exception \in SmtpErrors

\* the condition of starttls()
needs_starttls(m) == ~m.use_ssl /\ m.port = STARTTLS_PORT

\* the condition of login()
needs_login(m) == is_true(m.username) /\ is_true(m.password)

\* the SMTP call that follows a successful call, "return" after the last
next_call(m, call) ==
    IF call \in {"SMTP", "SMTP_SSL"}
    THEN IF needs_starttls(m) THEN "starttls"
         ELSE IF needs_login(m) THEN "login" ELSE "sendmail"
    ELSE IF call = "starttls"
         THEN IF needs_login(m) THEN "login" ELSE "sendmail"
    ELSE IF call = "login" THEN "sendmail"
    ELSE IF call = "sendmail" THEN "quit"
    ELSE "return"

\* the arguments of a call
call_args(m, call) ==
    IF call \in {"SMTP", "SMTP_SSL"} THEN << m.host, m.port >>
    ELSE IF call = "login" THEN << m.username, m.password >>
    ELSE IF call = "sendmail"
         THEN << IF is_true(m.username) THEN m.username ELSE DefaultFrom,
                 m.recipient_email >>
    ELSE << >>

(***************************************************************************)
(* save_conversation_message (conversations/recording_utils.py).  A path   *)
(* is the tuple of its components, a file name the tuple of its parts.     *)
(***************************************************************************)
\* how the interpreter treats the annotations of a def statement: it
\* evaluates them when the def runs (Python up to 3.13), or only when they
\* are asked for (Python 3.14)
Annotations == {"eager", "deferred"}

\* the names the module has bound when the def statement runs: os, shutil,
\* datetime, logger, Optional, ConversationRecordingConfig
ModuleNames ==
    {"os", "shutil", "datetime", "logger", "Optional",
     "ConversationRecordingConfig", "str", "bytes"}

\* the names the annotations of save_conversation_message use
AnnotationNames ==
    {"ConversationRecordingConfig", "str", "Optional", "Union", "bytes",
     "datetime"}

\* str.isalnum() is true of these characters
Alnum ==
    {"0","1","2","3","4","5","6","7","8","9",
     "a","b","c","d","e","f","g","h","i","j","k","l","m","n","o","p","q",
     "r","s","t","u","v","w","x","y","z",
     "A","B","C","D","E","F","G","H","I","J","K","L","M","N","O","P","Q",
     "R","S","T","U","V","W","X","Y","Z"}

\* "".join(c if c.isalnum() or c in ['-', '_'] else '_' for c in name)
safe_name(name) ==
    [i \in 1 .. Len(name) |->
        IF name[i] \in Alnum \/ name[i] \in {"-", "_"} THEN name[i]
        ELSE "_"]

RecordingConfigs ==
    [enable_recording : BOOLEAN, recording_directory : {"conversations"},
     audio_format : {"wav"}, text_format : {"txt"}]

CharacterNames == { <<"A"," ","i">> }

SessionIds == { << >>, <<"s","/","1">> }

MessageTypes == {"user", "ai"}

\* text_content: None or a text
TextContents == {None, "text"}

\* audio_content_or_path by its type: None, a path, bytes, anything else
AudioContents == {"None", "str", "bytes", "other"}

\* what a call of the file system can end with
fs_outcomes(call) ==
    IF call = "exists" THEN {"True", "False"} ELSE {"ok", "OSError"}

\* the directory of the session
base_path(r) ==
    << r.recording_config.recording_directory,
       safe_name(r.character_name_or_human), safe_name(r.session_id) >>

\* the path a call of the file system is made on
fs_path(r, call) ==
    IF call = "makedirs" THEN base_path(r)
    ELSE IF call \in {"open_text", "write_text"}
         THEN Append(base_path(r),
                     << "timestamp", r.message_type,
                        r.recording_config.text_format >>)
    ELSE IF call = "exists" THEN << "audio_content_or_path" >>
    ELSE Append(base_path(r),
                << "timestamp", r.message_type,
                   r.recording_config.audio_format >>)

\* the audio part of the function: the call it starts with, "return" when
\* it makes none, and what it logs before
audio_part(r) ==
    IF r.audio_content_or_path = "None"
    THEN [call |-> "return", logged |-> << >>]
    ELSE IF r.audio_content_or_path = "str"
         THEN [call |-> "exists", logged |-> << >>]
    ELSE IF r.audio_content_or_path = "bytes"
         THEN [call |-> "open_audio", logged |-> << >>]
    ELSE [call |-> "return", logged |-> << "warning" >>]

\* what follows a call of the file system that ended with outcome: the
\* next call, "return" when the function ends, and what is logged
after_fs_call(r, call, outcome) ==
    IF outcome = "OSError"
    THEN [call |-> "return", logged |-> << "error" >>]
    ELSE IF call = "makedirs"
         THEN IF r.text_content # None
              THEN [call |-> "open_text", logged |-> << >>]
              ELSE audio_part(r)
    ELSE IF call = "open_text"
         THEN [call |-> "write_text", logged |-> << >>]
    ELSE IF call = "write_text"
         THEN [call |-> audio_part(r).call,
               logged |-> << "info" >> \o audio_part(r).logged]
    ELSE IF call = "exists"
         THEN IF outcome = "True"
              THEN [call |-> "copy", logged |-> << >>]
              ELSE [call |-> "return", logged |-> << "error" >>]
    ELSE IF call = "open_audio"
         THEN [call |-> "write_audio", logged |-> << >>]
    ELSE [call |-> "return", logged |-> << "info" >>]

(***************************************************************************)
(* State.                                                                  *)
(***************************************************************************)
VARIABLES
    memory,             \* self._memory
    system,             \* self._system
    interrupt_method,   \* self.interrupt_method
    enable_web_search,  \* self._enable_web_search
    interrupt_handled,  \* self._interrupt_handled
    turn,               \* per task: the frame of chat_with_memory
    interrupt_run,      \* handle_interrupt calls made in a row
    turns,              \* turns started
    interrupts,         \* handle_interrupt calls made
    loads,              \* set_memory_from_history calls made
    groups,             \* start_group_conversation calls made
    last_load,          \* the last history loaded and the memory it replaced
    handled_since_reset, \* handle_interrupt was called since the last
                        \* reset_interrupt (or since construction)
    llm,                \* self._llm, the model self.chat is built on
    search,             \* the last call of search_web
    mail,               \* the EmailSender and its send_email call
    recording           \* the last call of save_conversation_message

\* the state of the tools next to the agent
tools == <<search, mail, recording>>

\* what the steps of a turn leave alone
outside_turn == <<loads, groups, last_load, handled_since_reset, llm, tools>>

\* the state of the agent
agent == <<memory, system, interrupt_method, enable_web_search,
           interrupt_handled, turn, interrupt_run, turns, interrupts,
           loads, groups, last_load, handled_since_reset, llm>>

vars == <<memory, system, interrupt_method, enable_web_search,
          interrupt_handled, turn, interrupt_run, turns, interrupts,
          loads, groups, last_load, handled_since_reset, llm, tools>>

\* search_web has not been called
IdleSearch == [pc |-> "idle"]

\* no EmailSender has been constructed
NoMail == [pc |-> "none"]

\* recording_utils has not been imported
IdleRecording == [pc |-> "unloaded"]

\* the frame of a chat_with_memory call that has not started
IdleTurn ==
    [pc |-> "idle",
     input_data |-> [texts |-> << >>, images |-> << >>],
     messages |-> << >>,
     current_search_iteration |-> 0,
     token_stream |-> << >>,
     raw_llm_output_for_search_check |-> << >>,
     complete_response |-> << >>,
     emitted |-> << >>,
     chat_func |-> "none",
     \* bookkeeping of the environment
     mem0 |-> << >>,
     foreign |-> FALSE,
     llm_calls |-> << >>,
     search_calls |-> << >>,
     outcomes |-> << >>]

Init ==
    /\ memory = << >>
    /\ interrupt_method \in {"user", "system"}
    /\ system = system_for(SystemArg, interrupt_method)
    /\ enable_web_search \in BOOLEAN
    /\ interrupt_handled = FALSE
    /\ turn = [t \in Tasks |-> IdleTurn]
    /\ interrupt_run = 0
    /\ turns = 0
    /\ interrupts = 0
    /\ loads = 0
    /\ groups = 0
    /\ last_load = [history |-> << >>, replaced |-> << >>]
    /\ handled_since_reset = FALSE
    /\ llm = "well_formed"
    /\ search = IdleSearch
    /\ mail = NoMail
    /\ recording = IdleRecording

(***************************************************************************)
(* Steps of chat_with_memory.  A step runs from one suspension point of    *)
(* the async generator to the next: the await of the next model token      *)
(* (async for) and the yield of a character of the final text.  A value a  *)
(* step uses several times is bound by \E over a singleton, which computes *)
(* it once, also where ENABLED is evaluated.                               *)
(***************************************************************************)
\* the pattern applied whatever the capability flag says
directive_unconditional(raw) == search_match(raw)

\* the match the loop acts on: None unless the capability is enabled
\* a check that takes a match with an empty query for no directive
directive_needing_query(raw) ==
    IF enable_web_search /\ strip(search_match(raw).group) # << >>
    THEN search_match(raw)
    ELSE [found |-> FALSE, group |-> << >>]

directive(raw) ==
    IF enable_web_search THEN search_match(raw)
    ELSE [found |-> FALSE, group |-> << >>]

\* a call that hands the model the system prompt as the first message
next_iteration_prepending_system(f, stream) ==
    [f EXCEPT !.current_search_iteration = @ + 1,
              !.token_stream = stream,
              !.complete_response = << >>,
              !.raw_llm_output_for_search_check = << >>,
              !.llm_calls = Append(@, [messages |->
                                          << [role |-> "system",
                                              content |-> system] >>
                                          \o f.messages,
                                       system |-> system,
                                       output |-> Concat(stream)]),
              !.pc = "awaiting_model"]

\* top of the while loop: a new iteration calls chat_func(messages, _system)
\* and waits for the first token of the stream the model hands back
next_iteration(f, stream) ==
    [f EXCEPT !.current_search_iteration = @ + 1,
              !.token_stream = stream,
              !.complete_response = << >>,
              !.raw_llm_output_for_search_check = << >>,
              !.llm_calls = Append(@, [messages |-> f.messages,
                                       system |-> system,
                                       output |-> Concat(stream)]),
              !.pc = "awaiting_model"]

\* a start that leaves the user message to the end of the turn
StartTurn_unrecorded(t, input_data) ==
    /\ turn[t].pc \in {"idle", "done", "failed", "cancelled"}
    /\ \E content \in {user_content(input_data)} :
       \E f0 \in {[IdleTurn EXCEPT
                      !.input_data = input_data,
                      !.messages = Append(memory, [role |-> "user",
                                                   content |-> content]),
                      !.chat_func = llm,
                      !.mem0 = memory]} :
           /\ UNCHANGED memory
           /\ \E stream \in chat_completion(llm) :
                turn' = [turn EXCEPT ![t] = next_iteration(f0, stream)]
    /\ turns' = turns + 1
    /\ interrupt_run' = 0
    /\ UNCHANGED outside_turn
    /\ UNCHANGED <<system, interrupt_method, enable_web_search,
                   interrupt_handled, interrupts>>

\* chat_with_memory is started: _to_messages copies memory, adds the user
\* message to the copy and to memory; the loop is entered
StartTurn(t, input_data) ==
    /\ turn[t].pc \in {"idle", "done", "failed", "cancelled"}
    /\ \E content \in {user_content(input_data)} :
       \E f0 \in {[IdleTurn EXCEPT
                      !.input_data = input_data,
                      !.messages = Append(memory, [role |-> "user",
                                                   content |-> content]),
                      !.chat_func = llm,
                      !.mem0 = memory]} :
           /\ memory' = Append(memory,
                  message_data(message_text(content,
                                           input_data.images # << >>),
                               "user"))
           /\ \E stream \in chat_completion(llm) :
                turn' = [turn EXCEPT ![t] = next_iteration(f0, stream)]
    /\ turns' = turns + 1
    /\ interrupt_run' = 0
    /\ UNCHANGED outside_turn
    /\ UNCHANGED <<system, interrupt_method, enable_web_search,
                   interrupt_handled, interrupts>>

\* a loop that yields every token as the model hands it over
ModelToken_streaming(t) ==
    /\ turn[t].pc = "awaiting_model"
    /\ turn[t].token_stream # << >>
    /\ turn' = [turn EXCEPT
                  ![t].raw_llm_output_for_search_check =
                      @ \o Head(turn[t].token_stream),
                  ![t].emitted = @ \o Head(turn[t].token_stream),
                  ![t].token_stream = Tail(@)]
    /\ interrupt_run' = 0
    /\ UNCHANGED outside_turn
    /\ UNCHANGED <<memory, system, interrupt_method, enable_web_search,
                   interrupt_handled, turns, interrupts>>

\* async for token in token_stream: raw_llm_output_for_search_check += token
ModelToken(t) ==
    /\ turn[t].pc = "awaiting_model"
    /\ turn[t].token_stream # << >>
    /\ turn' = [turn EXCEPT
                  ![t].raw_llm_output_for_search_check =
                      @ \o Head(turn[t].token_stream),
                  ![t].token_stream = Tail(@)]
    /\ interrupt_run' = 0
    /\ UNCHANGED outside_turn
    /\ UNCHANGED <<memory, system, interrupt_method, enable_web_search,
                   interrupt_handled, turns, interrupts>>

\* a failure handler that stores what was buffered so far
ModelFail_storing(t) ==
    /\ turn[t].pc = "awaiting_model"
    /\ turn' = [turn EXCEPT ![t].pc = "failed"]
    /\ memory' = Append(memory,
                        message_data(turn[t].raw_llm_output_for_search_check,
                                     "assistant"))
    /\ interrupt_run' = 0
    /\ UNCHANGED outside_turn
    /\ UNCHANGED <<system, interrupt_method, enable_web_search,
                   interrupt_handled, turns, interrupts>>

\* the token stream raises: the exception leaves the generator
ModelFail(t) ==
    /\ turn[t].pc = "awaiting_model"
    /\ turn' = [turn EXCEPT ![t].pc = "failed"]
    /\ interrupt_run' = 0
    /\ UNCHANGED outside_turn
    /\ UNCHANGED <<memory, system, interrupt_method, enable_web_search,
                   interrupt_handled, turns, interrupts>>

\* a search step that hands the model the guidance without the attempt
after_search_guidance_only(f, search_query, search_results_str) ==
    [f EXCEPT
       !.search_calls = Append(@, [query |-> search_query,
                                   num_results |-> NUM_RESULTS,
                                   result |-> search_results_str]),
       !.messages = @ \o
           << [role |-> "user",
               content |-> search_context_message(search_query,
                                                  search_results_str)] >>]

\* the frame after search_web has returned search_results_str for
\* search_query: the call is made with num_results=3, and the attempt and
\* the guidance are appended to messages
after_search(f, search_query, search_results_str) ==
    [f EXCEPT
       !.search_calls = Append(@, [query |-> search_query,
                                   num_results |-> NUM_RESULTS,
                                   result |-> search_results_str]),
       !.messages = @ \o
           << [role |-> "assistant",
               content |-> f.raw_llm_output_for_search_check],
              [role |-> "user",
               content |-> search_context_message(search_query,
                                                  search_results_str)] >>]

\* a search round that starts the next model call while the search is
\* still under way: the call gets the context without the round's entries
SearchRound_overlapping(t) ==
    /\ turn[t].pc = "awaiting_model"
    /\ turn[t].token_stream = << >>
    /\ \E f \in {turn[t]} :
       \E search_matched \in {directive(f.raw_llm_output_for_search_check)} :
         /\ search_matched.found
         /\ \E search_query \in {strip(search_matched.group)} :
            \E outcome \in TurnOutcomes :
            \E returned \in {search_web(search_query, NUM_RESULTS, outcome)} :
            IF returned.raised
            THEN /\ turn' = [turn EXCEPT
                               ![t].outcomes = Append(@, outcome),
                               ![t].pc = "failed"]
                 /\ UNCHANGED memory
            ELSE
            \E search_results_str \in {returned.text} :
            \E f1 \in {[after_search(f, search_query, search_results_str)
                          EXCEPT !.outcomes = Append(@, outcome)]} :
              IF f1.current_search_iteration < MAX_SEARCH_ITERATIONS
              THEN /\ \E stream \in chat_completion(f.chat_func) :
                        turn' = [turn EXCEPT
                                   ![t] = [next_iteration(f, stream) EXCEPT
                                             !.messages = f1.messages,
                                             !.search_calls = f1.search_calls,
                                             !.outcomes = f1.outcomes]]
                   /\ UNCHANGED memory
              ELSE /\ memory' = Append(memory,
                         message_data(f1.complete_response, "assistant"))
                   /\ turn' = [turn EXCEPT ![t] = [f1 EXCEPT !.pc = "done"]]
    /\ interrupt_run' = 0
    /\ UNCHANGED outside_turn
    /\ UNCHANGED <<system, interrupt_method, enable_web_search,
                   interrupt_handled, turns, interrupts>>

\* a search round that also stores the attempt and the guidance in memory
SearchRound_persisting(t) ==
    /\ turn[t].pc = "awaiting_model"
    /\ turn[t].token_stream = << >>
    /\ \E f \in {turn[t]} :
       \E search_matched \in {directive(f.raw_llm_output_for_search_check)} :
         /\ search_matched.found
         /\ \E search_query \in {strip(search_matched.group)} :
            \E outcome \in TurnOutcomes :
            \E returned \in {search_web(search_query, NUM_RESULTS, outcome)} :
            IF returned.raised
            THEN \* the exception leaves chat_with_memory
                 /\ turn' = [turn EXCEPT
                               ![t].outcomes = Append(@, outcome),
                               ![t].pc = "failed"]
                 /\ UNCHANGED memory
            ELSE
            \E search_results_str \in {returned.text} :
            \E f1 \in {[after_search(f, search_query, search_results_str)
                          EXCEPT !.outcomes = Append(@, outcome)]} :
              IF f1.current_search_iteration < MAX_SEARCH_ITERATIONS
              THEN /\ \E stream \in chat_completion(f.chat_func) :
                        turn' = [turn EXCEPT
                                   ![t] = next_iteration(f1, stream)]
                   /\ memory' = memory \o
                             << [role |-> "assistant",
                                 content |-> f.raw_llm_output_for_search_check],
                                [role |-> "user",
                                 content |-> f1.messages[Len(f1.messages)]
                                                .content] >>
              ELSE \* the loop ends without break: complete_response is
                   \* still the "" of this iteration
                   /\ memory' = Append(memory,
                         message_data(f1.complete_response, "assistant"))
                   /\ turn' = [turn EXCEPT ![t] = [f1 EXCEPT !.pc = "done"]]
    /\ interrupt_run' = 0
    /\ UNCHANGED outside_turn
    /\ UNCHANGED <<system, interrupt_method, enable_web_search,
                   interrupt_handled, turns, interrupts>>

\* the stream has ended and the buffered output holds a directive:
\* search_web is called, the attempt and the guidance go to messages, and
\* `continue' re-evaluates the loop condition
SearchRound(t) ==
    /\ turn[t].pc = "awaiting_model"
    /\ turn[t].token_stream = << >>
    /\ \E f \in {turn[t]} :
       \E search_matched \in {directive(f.raw_llm_output_for_search_check)} :
         /\ search_matched.found
         /\ \E search_query \in {strip(search_matched.group)} :
            \E outcome \in TurnOutcomes :
            \E returned \in {search_web(search_query, NUM_RESULTS, outcome)} :
            IF returned.raised
            THEN \* the exception leaves chat_with_memory
                 /\ turn' = [turn EXCEPT
                               ![t].outcomes = Append(@, outcome),
                               ![t].pc = "failed"]
                 /\ UNCHANGED memory
            ELSE
            \E search_results_str \in {returned.text} :
            \E f1 \in {[after_search(f, search_query, search_results_str)
                          EXCEPT !.outcomes = Append(@, outcome)]} :
              IF f1.current_search_iteration < MAX_SEARCH_ITERATIONS
              THEN /\ \E stream \in chat_completion(f.chat_func) :
                        turn' = [turn EXCEPT
                                   ![t] = next_iteration(f1, stream)]
                   /\ UNCHANGED memory
              ELSE \* the loop ends without break: complete_response is
                   \* still the "" of this iteration
                   /\ memory' = Append(memory,
                         message_data(f1.complete_response, "assistant"))
                   /\ turn' = [turn EXCEPT ![t] = [f1 EXCEPT !.pc = "done"]]
    /\ interrupt_run' = 0
    /\ UNCHANGED outside_turn
    /\ UNCHANGED <<system, interrupt_method, enable_web_search,
                   interrupt_handled, turns, interrupts>>

\* the stream has ended and no directive is acted on: the buffered output is
\* the final response; its first character is yielded, or, when it is
\* empty, the loop is left at once and the response is stored
\* a turn end that stores no assistant message for an empty response
FinalResponse_skipping_empty(t) ==
    /\ turn[t].pc = "awaiting_model"
    /\ turn[t].token_stream = << >>
    /\ \E raw \in {turn[t].raw_llm_output_for_search_check} :
           /\ ~directive(raw).found
           /\ IF raw # << >>
              THEN /\ turn' = [turn EXCEPT ![t].emitted = << raw[1] >>,
                                           ![t].pc = "yielding"]
                   /\ UNCHANGED memory
              ELSE /\ turn' = [turn EXCEPT ![t].complete_response = raw,
                                           ![t].pc = "done"]
                   /\ UNCHANGED memory
    /\ interrupt_run' = 0
    /\ UNCHANGED outside_turn
    /\ UNCHANGED <<system, interrupt_method, enable_web_search,
                   interrupt_handled, turns, interrupts>>

FinalResponse(t) ==
    /\ turn[t].pc = "awaiting_model"
    /\ turn[t].token_stream = << >>
    /\ \E raw \in {turn[t].raw_llm_output_for_search_check} :
           /\ ~directive(raw).found
           /\ IF raw # << >>
              THEN /\ turn' = [turn EXCEPT ![t].emitted = << raw[1] >>,
                                           ![t].pc = "yielding"]
                   /\ UNCHANGED memory
              ELSE /\ turn' = [turn EXCEPT ![t].complete_response = raw,
                                           ![t].pc = "done"]
                   /\ memory' = Append(memory,
                                       message_data(raw, "assistant"))
    /\ interrupt_run' = 0
    /\ UNCHANGED outside_turn
    /\ UNCHANGED <<system, interrupt_method, enable_web_search,
                   interrupt_handled, turns, interrupts>>

\* a loop over the characters that leaves one character early
Resume_leaving_early(t) ==
    /\ turn[t].pc = "yielding"
    /\ \E raw \in {turn[t].raw_llm_output_for_search_check} :
       \E n \in {Len(turn[t].emitted)} :
           IF n + 1 < Len(raw)
           THEN /\ turn' = [turn EXCEPT ![t].emitted = Append(@, raw[n + 1])]
                /\ UNCHANGED memory
           ELSE /\ turn' = [turn EXCEPT ![t].complete_response = raw,
                                        ![t].pc = "done"]
                /\ memory' = Append(memory, message_data(raw, "assistant"))
    /\ interrupt_run' = 0
    /\ UNCHANGED outside_turn
    /\ UNCHANGED <<system, interrupt_method, enable_web_search,
                   interrupt_handled, turns, interrupts>>

\* the consumer asks for the next item: the next character is yielded, or
\* after the last one complete_response is set, the loop is left and
\* _add_message stores the response
\* a turn end that writes back the memory the turn started from, with its
\* own two messages
Resume_writing_back(t) ==
    /\ turn[t].pc = "yielding"
    /\ \E raw \in {turn[t].raw_llm_output_for_search_check} :
       \E n \in {Len(turn[t].emitted)} :
           IF n < Len(raw)
           THEN /\ turn' = [turn EXCEPT ![t].emitted = Append(@, raw[n + 1])]
                /\ UNCHANGED memory
           ELSE /\ turn' = [turn EXCEPT ![t].complete_response = raw,
                                        ![t].pc = "done"]
                /\ memory' = Append(SubSeq(turn[t].messages, 1,
                                           Len(turn[t].mem0) + 1),
                                    message_data(raw, "assistant"))
    /\ interrupt_run' = 0
    /\ UNCHANGED outside_turn
    /\ UNCHANGED <<system, interrupt_method, enable_web_search,
                   interrupt_handled, turns, interrupts>>

Resume(t) ==
    /\ turn[t].pc = "yielding"
    /\ \E raw \in {turn[t].raw_llm_output_for_search_check} :
       \E n \in {Len(turn[t].emitted)} :
           IF n < Len(raw)
           THEN /\ turn' = [turn EXCEPT ![t].emitted = Append(@, raw[n + 1])]
                /\ UNCHANGED memory
           ELSE /\ turn' = [turn EXCEPT ![t].complete_response = raw,
                                        ![t].pc = "done"]
                /\ memory' = Append(memory, message_data(raw, "assistant"))
    /\ interrupt_run' = 0
    /\ UNCHANGED outside_turn
    /\ UNCHANGED <<system, interrupt_method, enable_web_search,
                   interrupt_handled, turns, interrupts>>

\* a cancellation that stores the partial buffer, as a finally clause
\* around the loop would
CancelBuffering_storing(t) ==
    /\ turn[t].pc = "awaiting_model"
    /\ turn' = [turn EXCEPT ![t].pc = "cancelled"]
    /\ memory' = Append(memory,
                        message_data(turn[t].raw_llm_output_for_search_check,
                                     "assistant"))
    /\ interrupt_run' = 0
    /\ UNCHANGED outside_turn
    /\ UNCHANGED <<system, interrupt_method, enable_web_search,
                   interrupt_handled, turns, interrupts>>

\* the task is cancelled while it awaits a model token: CancelledError is
\* raised at the await and leaves the generator
CancelBuffering(t) ==
    /\ turn[t].pc = "awaiting_model"
    /\ turn' = [turn EXCEPT ![t].pc = "cancelled"]
    /\ interrupt_run' = 0
    /\ UNCHANGED outside_turn
    /\ UNCHANGED <<memory, system, interrupt_method, enable_web_search,
                   interrupt_handled, turns, interrupts>>

\* the generator is closed or its task cancelled while it is suspended at
\* a yield
\* a close of the generator that stores what was shown so far
CancelYielding_storing(t) ==
    /\ turn[t].pc = "yielding"
    /\ turn' = [turn EXCEPT ![t].pc = "cancelled"]
    /\ memory' = Append(memory, message_data(turn[t].emitted, "assistant"))
    /\ interrupt_run' = 0
    /\ UNCHANGED outside_turn
    /\ UNCHANGED <<system, interrupt_method, enable_web_search,
                   interrupt_handled, turns, interrupts>>

CancelYielding(t) ==
    /\ turn[t].pc = "yielding"
    /\ turn' = [turn EXCEPT ![t].pc = "cancelled"]
    /\ interrupt_run' = 0
    /\ UNCHANGED outside_turn
    /\ UNCHANGED <<memory, system, interrupt_method, enable_web_search,
                   interrupt_handled, turns, interrupts>>

(***************************************************************************)
(* Operations on the memory.                                               *)
(***************************************************************************)
\* the frames after an operation outside the turns has changed memory
Disturbed ==
    [t \in Tasks |->
        IF turn[t].pc = "idle" THEN turn[t]
        ELSE [turn[t] EXCEPT !.foreign = TRUE]]

\* an interrupt that keeps the last assistant message and adds the heard
\* text as a new one
interrupted_memory_appending(mem, heard_response, method) ==
    LET marker == [role |-> IF method = "system" THEN "system" ELSE "user",
                   content |-> InterruptMarker]
    IN  IF heard_response # << >>
        THEN mem \o << [role |-> "assistant",
                        content |-> heard_response \o Ellipsis],
                       marker >>
        ELSE Append(mem, marker)

\* the memory handle_interrupt leaves when it acts (lines 165-180)
\* a marker whose role is the configured policy value itself
interrupted_memory_role_of_policy(mem, heard_response, method) ==
    LET marker == [role |-> method, content |-> InterruptMarker]
        n == Len(mem)
    IN  IF n > 0 /\ mem[n].role = "assistant"
        THEN Append([mem EXCEPT ![n].content = heard_response \o Ellipsis],
                    marker)
        ELSE IF heard_response # << >>
             THEN mem \o << [role |-> "assistant",
                             content |-> heard_response \o Ellipsis],
                            marker >>
             ELSE Append(mem, marker)

\* a rewrite of the last message whatever its role
interrupted_memory_overwriting_last(mem, heard_response, method) ==
    LET marker == [role |-> IF method = "system" THEN "system" ELSE "user",
                   content |-> InterruptMarker]
        n == Len(mem)
    IN  IF n > 0
        THEN Append([mem EXCEPT ![n].content = heard_response \o Ellipsis],
                    marker)
        ELSE IF heard_response # << >>
             THEN mem \o << [role |-> "assistant",
                             content |-> heard_response \o Ellipsis],
                            marker >>
             ELSE Append(mem, marker)

interrupted_memory(mem, heard_response, method) ==
    LET marker == [role |-> IF method = "system" THEN "system" ELSE "user",
                   content |-> InterruptMarker]
        n == Len(mem)
    IN  IF n > 0 /\ mem[n].role = "assistant"
        THEN Append([mem EXCEPT ![n].content = heard_response \o Ellipsis],
                    marker)
        ELSE IF heard_response # << >>
             THEN mem \o << [role |-> "assistant",
                             content |-> heard_response \o Ellipsis],
                            marker >>
             ELSE Append(mem, marker)

\* handle_interrupt with the early return on _interrupt_handled left out
handle_interrupt_unguarded(heard_response) ==
    /\ interrupts < MaxInterrupts
    /\ interrupts' = interrupts + 1
    /\ interrupt_run' = interrupt_run + 1
    /\ handled_since_reset' = TRUE
    /\ UNCHANGED <<loads, groups, last_load, llm, tools>>
    /\ interrupt_handled' = TRUE
    /\ memory' = interrupted_memory(memory, heard_response, interrupt_method)
    /\ turn' = Disturbed
    /\ UNCHANGED <<system, interrupt_method, enable_web_search, turns>>

handle_interrupt(heard_response) ==
    /\ interrupts < MaxInterrupts
    /\ interrupts' = interrupts + 1
    /\ interrupt_run' = interrupt_run + 1
    /\ handled_since_reset' = TRUE
    /\ UNCHANGED <<loads, groups, last_load, llm, tools>>
    /\ IF interrupt_handled
       THEN UNCHANGED <<memory, interrupt_handled, turn>>
       ELSE /\ interrupt_handled' = TRUE
            /\ memory' = interrupted_memory(memory, heard_response,
                                            interrupt_method)
            /\ turn' = Disturbed
    /\ UNCHANGED <<system, interrupt_method, enable_web_search, turns>>

\* a reset that also empties the memory
reset_interrupt_clearing ==
    /\ interrupt_handled' = FALSE
    /\ memory' = << >>
    /\ interrupt_run' = 0
    /\ handled_since_reset' = FALSE
    /\ UNCHANGED <<loads, groups, last_load, llm, tools>>
    /\ UNCHANGED <<system, interrupt_method, enable_web_search,
                   turn, turns, interrupts>>

reset_interrupt ==
    /\ interrupt_handled' = FALSE
    /\ interrupt_run' = 0
    /\ handled_since_reset' = FALSE
    /\ UNCHANGED <<loads, groups, last_load, llm, tools>>
    /\ UNCHANGED <<memory, system, interrupt_method, enable_web_search,
                   turn, turns, interrupts>>

\* set_system(system_arg): the prompt, with the interrupt suffix under the
\* "user" policy, becomes _system; _memory is not touched
\* the arguments of the direct calls of _add_message: texts and lists of
\* parts, with and without display_text
AddArgs ==
    << [message |-> <<"m">>, is_list |-> FALSE, role |-> "user",
       display_text |-> NoDisplay],
      [message |-> <<"m">>, is_list |-> FALSE, role |-> "assistant",
       display_text |-> [given |-> TRUE, name |-> << >>, avatar |-> << >>]],
      [message |-> << [type |-> "text", text |-> <<"a">>],
                      [type |-> "image_url",
                       image_url |-> [url |-> <<"d">>, detail |-> "auto"]],
                      [type |-> "text", text |-> <<"b">>] >>,
       is_list |-> TRUE, role |-> "user",
       display_text |-> [given |-> TRUE, name |-> <<"n">>, avatar |-> << >>]],
      [message |-> << [type |-> "image_url",
                       image_url |-> [url |-> <<"d">>, detail |-> "auto"]] >>,
       is_list |-> TRUE, role |-> "user",
       display_text |-> [given |-> TRUE, name |-> << >>, avatar |-> <<"v">>]],
      [message |-> << >>, is_list |-> TRUE, role |-> "assistant",
       display_text |-> [given |-> TRUE, name |-> <<"n">>,
                         avatar |-> <<"v">>]] >>

\* _add_message(message, role, display_text), called on its own
_add_message(message, is_list, role, display_text) ==
    /\ memory' = Append(memory,
                        with_display(message_data(message_text(message,
                                                               is_list),
                                                  role),
                                     display_text))
    /\ interrupt_run' = 0
    /\ UNCHANGED <<system, interrupt_method, enable_web_search,
                   interrupt_handled, turn, turns, interrupts, loads, groups,
                   last_load, handled_since_reset, llm, tools>>

set_system(system_arg) ==
    /\ system' = system_for(system_arg, interrupt_method)
    /\ interrupt_run' = 0
    /\ UNCHANGED <<memory, interrupt_method, enable_web_search,
                   interrupt_handled, turn, turns, interrupts, loads, groups,
                   last_load, handled_since_reset, llm, tools>>

\* _set_llm(new_llm): the model is stored and self.chat is built anew on
\* its chat_completion; a turn under way keeps the chat_func it was
\* started with
_set_llm(new_llm) ==
    /\ llm' = new_llm
    /\ interrupt_run' = 0
    /\ UNCHANGED <<memory, system, interrupt_method, enable_web_search,
                   interrupt_handled, turn, turns, interrupts, loads, groups,
                   last_load, handled_since_reset, tools>>

\* a load that keeps what memory held
set_memory_from_history_appending(messages) ==
    /\ memory' = memory \o << [role |-> "system", content |-> system] >>
                       \o from_history(messages)
    /\ loads' = loads + 1
    /\ last_load' = [history |-> messages, replaced |-> memory]
    /\ turn' = Disturbed
    /\ interrupt_run' = 0
    /\ UNCHANGED <<system, interrupt_method, enable_web_search,
                   interrupt_handled, turns, interrupts, groups,
                   handled_since_reset, llm, tools>>

\* messages is what get_history(conf_uid, history_uid) returned
set_memory_from_history(messages) ==
    /\ memory' = << [role |-> "system", content |-> system] >>
                    \o from_history(messages)
    /\ loads' = loads + 1
    /\ last_load' = [history |-> messages, replaced |-> memory]
    /\ turn' = Disturbed
    /\ interrupt_run' = 0
    /\ UNCHANGED <<system, interrupt_method, enable_web_search,
                   interrupt_handled, turns, interrupts, groups,
                   handled_since_reset, llm, tools>>

\* a group conversation whose context is put in front of the log
start_group_conversation_prepending(human_name, ai_participants) ==
    /\ memory' = << [role |-> "user",
                     content |-> group_context(human_name,
                                               ai_participants)] >>
                    \o memory
    /\ groups' = groups + 1
    /\ turn' = Disturbed
    /\ interrupt_run' = 0
    /\ UNCHANGED <<system, interrupt_method, enable_web_search,
                   interrupt_handled, turns, interrupts, loads, last_load,
                   handled_since_reset, llm, tools>>

\* a group conversation that starts with a cleared interrupt flag
start_group_conversation_resetting(human_name, ai_participants) ==
    /\ memory' = Append(memory,
                        [role |-> "user",
                         content |-> group_context(human_name,
                                                   ai_participants)])
    /\ groups' = groups + 1
    /\ turn' = Disturbed
    /\ interrupt_run' = 0
    /\ interrupt_handled' = FALSE
    /\ UNCHANGED <<system, interrupt_method, enable_web_search,
                   turns, interrupts, loads, last_load,
                   handled_since_reset, llm, tools>>

\* an injection that stores the context as a system message
start_group_conversation_as_system(human_name, ai_participants) ==
    /\ memory' = Append(memory,
                        [role |-> "system",
                         content |-> group_context(human_name,
                                                   ai_participants)])
    /\ groups' = groups + 1
    /\ turn' = Disturbed
    /\ interrupt_run' = 0
    /\ UNCHANGED <<system, interrupt_method, enable_web_search,
                   interrupt_handled, turns, interrupts, loads, last_load,
                   handled_since_reset, llm, tools>>

start_group_conversation(human_name, ai_participants) ==
    /\ memory' = Append(memory,
                        [role |-> "user",
                         content |-> group_context(human_name,
                                                   ai_participants)])
    /\ groups' = groups + 1
    /\ turn' = Disturbed
    /\ interrupt_run' = 0
    /\ UNCHANGED <<system, interrupt_method, enable_web_search,
                   interrupt_handled, turns, interrupts, loads, last_load,
                   handled_since_reset, llm, tools>>

(***************************************************************************)
(* The tools on their own.                                                 *)
(***************************************************************************)
\* the agent as constructed with the default interrupt_method and without
\* web search; the tools are used next to it
InitTools ==
    /\ Init
    /\ interrupt_method = "user"
    /\ ~enable_web_search

\* search_web is called: it asks the provider, DDGS().text(keywords=query,
\* max_results=num_results)
CallSearchWeb(query, num_results) ==
    /\ search.pc # "asking"
    /\ search' = [pc |-> "asking",
                  query |-> query,
                  num_results |-> num_results,
                  ddgs_text |-> [keywords |-> query,
                                 max_results |-> num_results]]
    /\ UNCHANGED <<agent, mail, recording>>

\* the provider answers with outcome and search_web runs to its end
ReturnSearchWeb(outcome) ==
    /\ search.pc = "asking"
    /\ \E returned \in {search_web(search.query, search.num_results,
                                    outcome)} :
         search' = [pc |-> IF returned.raised THEN "raised" ELSE "returned",
                    query |-> search.query,
                    num_results |-> search.num_results,
                    ddgs_text |-> search.ddgs_text,
                    outcome |-> outcome,
                    text |-> returned.text]
    /\ UNCHANGED <<agent, mail, recording>>

\* EmailSender(host, port, use_ssl, username, password)
EmailSender(host, port, use_ssl, username, password) ==
    /\ mail.pc = "none"
    /\ mail' = [pc |-> "ready", host |-> host, port |-> port,
                use_ssl |-> use_ssl, username |-> username,
                password |-> password, recipient_email |-> None,
                call |-> "return", calls |-> << >>, result |-> FALSE]
    /\ UNCHANGED <<agent, search, recording>>

\* send_email is called: without host or port it returns False; otherwise
\* it builds the message and opens the connection
send_email(recipient_email) ==
    /\ mail.pc \in {"ready", "returned", "raised"}
    /\ IF ~is_true(mail.host) \/ ~is_nonzero(mail.port)
       THEN mail' = [mail EXCEPT !.pc = "returned", !.result = FALSE,
                                 !.recipient_email = recipient_email,
                                 !.call = "return", !.calls = << >>]
       ELSE mail' = [mail EXCEPT !.pc = "smtp", !.result = FALSE,
                                 !.recipient_email = recipient_email,
                                 !.call = IF mail.use_ssl THEN "SMTP_SSL"
                                          ELSE "SMTP",
                                 !.calls = << >>]
    /\ UNCHANGED <<agent, search, recording>>

\* the SMTP call send_email has come to is made and ends with outcome:
\* send_email goes on to its next call, returns True after quit, or
\* leaves the try block with the exception
smtp_call(outcome) ==
    /\ mail.pc = "smtp"
    /\ \E calls \in {Append(mail.calls,
                             [name |-> mail.call,
                              args |-> call_args(mail, mail.call),
                              outcome |-> outcome])} :
         IF outcome = "ok"
         THEN IF next_call(mail, mail.call) = "return"
              THEN mail' = [mail EXCEPT !.pc = "returned", !.result = TRUE,
                                        !.call = "return", !.calls = calls]
              ELSE mail' = [mail EXCEPT !.call = next_call(mail, mail.call),
                                        !.calls = calls]
         ELSE IF caught(outcome)
              THEN mail' = [mail EXCEPT !.pc = "returned", !.result = FALSE,
                                        !.call = "return", !.calls = calls]
              ELSE mail' = [mail EXCEPT !.pc = "raised", !.result = FALSE,
                                        !.call = "return", !.calls = calls]
    /\ UNCHANGED <<agent, search, recording>>

NextMail ==
    \/ \E host \in Hosts, port \in Ports, use_ssl \in BOOLEAN,
          username \in Usernames, password \in Passwords :
         EmailSender(host, port, use_ssl, username, password)
    \/ \E recipient_email \in Recipients : send_email(recipient_email)
    \/ \E outcome \in SmtpOutcomes : smtp_call(outcome)

SpecMail == InitTools /\ [][NextMail]_vars

\* the module is imported: its def statement runs, and with it the
\* annotations of the parameters when the interpreter evaluates them; a
\* name that is not bound raises NameError, which leaves the import
import_recording_utils(annotations) ==
    /\ recording.pc = "unloaded"
    /\ IF annotations = "eager" /\ ~(AnnotationNames \subseteq ModuleNames)
       THEN recording' = [pc |-> "raised", exception |-> "NameError"]
       ELSE recording' = [pc |-> "loaded"]
    /\ UNCHANGED <<agent, search, mail>>

\* save_conversation_message is called: it returns at once when recording
\* is disabled or the session id is empty; otherwise it enters the try
\* block and comes to os.makedirs
save_conversation_message(recording_config, character_name_or_human, session_id, message_type, text_content, audio_content_or_path) ==
    /\ recording.pc \in {"loaded", "returned"}
    /\ \E r \in {[pc |-> "returned",
                   recording_config |-> recording_config,
                   character_name_or_human |-> character_name_or_human,
                   session_id |-> session_id,
                   message_type |-> message_type,
                   text_content |-> text_content,
                   audio_content_or_path |-> audio_content_or_path,
                   call |-> "return",
                   fs_calls |-> << >>,
                   logged |-> << >>]} :
         IF ~recording_config.enable_recording
         THEN recording' = r
         ELSE IF session_id = << >>
              THEN recording' = [r EXCEPT !.logged = << "warning" >>]
              ELSE recording' = [r EXCEPT !.pc = "fs", !.call = "makedirs"]
    /\ UNCHANGED <<agent, search, mail>>

\* the call of the file system the function has come to is made and ends
\* with outcome; an exception is taken by `except Exception'
fs_call(outcome) ==
    /\ recording.pc = "fs"
    /\ outcome \in fs_outcomes(recording.call)
    /\ \E next \in {after_fs_call(recording, recording.call, outcome)} :
         recording' =
            [recording EXCEPT
               !.fs_calls = Append(@, [name |-> recording.call,
                                       path |-> fs_path(recording,
                                                        recording.call),
                                       outcome |-> outcome]),
               !.logged = @ \o next.logged,
               !.call = next.call,
               !.pc = IF next.call = "return" THEN "returned" ELSE "fs"]
    /\ UNCHANGED <<agent, search, mail>>

NextRecording ==
    \/ \E annotations \in Annotations : import_recording_utils(annotations)
    \/ \E recording_config \in RecordingConfigs,
          character_name_or_human \in CharacterNames,
          session_id \in SessionIds, message_type \in MessageTypes,
          text_content \in TextContents,
          audio_content_or_path \in AudioContents :
         save_conversation_message(recording_config, character_name_or_human,
                                   session_id, message_type, text_content,
                                   audio_content_or_path)
    \/ \E outcome \in {"ok", "OSError", "True", "False"} : fs_call(outcome)

SpecRecording == InitTools /\ [][NextRecording]_vars

NextSearch ==
    \/ \E query \in Queries, num_results \in NumResults :
         CallSearchWeb(query, num_results)
    \/ \E outcome \in ProviderOutcomes : ReturnSearchWeb(outcome)

SpecSearch == InitTools /\ [][NextSearch]_vars

(***************************************************************************)
(* Specifications.  The caller serialises the turns of one agent, so one   *)
(* task runs them all.  Spec is the agent serving turns; SpecInterrupt is  *)
(* the agent serving turns while the caller handles interrupts in between; *)
(* SpecLive is Spec for the turns whose model streams end and whose        *)
(* consumer keeps asking: no failure, no cancellation, and a turn that can *)
(* take a step takes one.                                                  *)
(***************************************************************************)
Next ==
    \/ /\ turns < MaxTurns
       /\ \E input_data \in Inputs : StartTurn(1, input_data)
    \/ ModelToken(1)
    \/ ModelFail(1)
    \/ SearchRound(1)
    \/ FinalResponse(1)
    \/ Resume(1)
    \/ CancelBuffering(1)
    \/ CancelYielding(1)

Spec == Init /\ [][Next]_vars

NextInterrupt ==
    \/ /\ turns < MaxInterruptedTurns
       /\ \E input_data \in Inputs : StartTurn(1, input_data)
    \/ ModelToken(1)
    \/ ModelFail(1)
    \/ SearchRound(1)
    \/ FinalResponse(1)
    \/ Resume(1)
    \/ CancelBuffering(1)
    \/ CancelYielding(1)
    \/ \E heard_response \in HeardTexts : handle_interrupt(heard_response)
    \/ reset_interrupt

SpecInterrupt == Init /\ [][NextInterrupt]_vars

\* every operation on the memory, in any order and also while a turn is
\* suspended; the turns are the ones that run to their end
NextMemory ==
    \/ /\ turns + loads + groups < MaxMemoryOps
       /\ \/ \E input_data \in Inputs : StartTurn(1, input_data)
          \/ \E messages \in Histories : set_memory_from_history(messages)
          \/ \E human_name \in HumanNames, ai_participants \in AiParticipants :
                start_group_conversation(human_name, ai_participants)
    \/ ModelToken(1)
    \/ SearchRound(1)
    \/ FinalResponse(1)
    \/ Resume(1)
    \/ \E heard_response \in HeardTexts : handle_interrupt(heard_response)
    \/ reset_interrupt

SpecMemory == Init /\ [][NextMemory]_vars

\* turns that run to their end, with the system prompt set anew at any
\* point between their steps
NextSystem ==
    \/ /\ turns < MaxTurns
       /\ \E input_data \in Inputs : StartTurn(1, input_data)
    \/ ModelToken(1)
    \/ SearchRound(1)
    \/ FinalResponse(1)
    \/ Resume(1)
    \/ \E system_arg \in SystemArgs : set_system(system_arg)

SpecSystem == Init /\ [][NextSystem]_vars

\* the values interrupt_method can hold: the two of its annotation and
\* one that the constructor, which does not validate it, also accepts
InterruptMethods == {"user", "system", "off"}

\* the state after construction with any of these values
InitPolicy ==
    /\ memory = << >>
    /\ interrupt_method \in InterruptMethods
    /\ system = system_for(SystemArg, interrupt_method)
    /\ enable_web_search \in BOOLEAN
    /\ interrupt_handled = FALSE
    /\ turn = [t \in Tasks |-> IdleTurn]
    /\ interrupt_run = 0
    /\ turns = 0
    /\ interrupts = 0
    /\ loads = 0
    /\ groups = 0
    /\ last_load = [history |-> << >>, replaced |-> << >>]
    /\ handled_since_reset = FALSE
    /\ llm = "well_formed"
    /\ search = IdleSearch
    /\ mail = NoMail
    /\ recording = IdleRecording

\* two tasks that each run one turn on the agent, their steps interleaved
\* at the points where a turn is suspended
NextInterleaved ==
    \E t \in Tasks :
       \/ /\ turns < MaxTurns
          /\ turn[t].pc = "idle"
          /\ \E input_data \in Inputs : StartTurn(t, input_data)
       \/ ModelToken(t)
       \/ SearchRound(t)
       \/ FinalResponse(t)
       \/ Resume(t)

SpecInterleaved == Init /\ [][NextInterleaved]_vars

\* every operation on the memory but the history load, called one after
\* the other: turns that run to their end and group-context injections,
\* and, between them and once the memory holds a message, interruptions,
\* their reset and a new system prompt
NextAppendOnly ==
    \/ /\ turns + groups < MaxMemoryOps
       /\ \/ \E input_data \in Inputs : StartTurn(1, input_data)
          \/ \E human_name \in HumanNames, ai_participants \in AiParticipants :
                start_group_conversation(human_name, ai_participants)
    \/ ModelToken(1)
    \/ SearchRound(1)
    \/ FinalResponse(1)
    \/ Resume(1)
    \/ /\ memory # << >>
       /\ turn[1].pc \in {"idle", "done"}
       /\ \/ \E heard_response \in HeardTexts : handle_interrupt(heard_response)
          \/ reset_interrupt
          \/ \E system_arg \in SystemArgs : set_system(system_arg)

SpecAppendOnly == Init /\ [][NextAppendOnly]_vars

\* turns whose consumer can stop taking the response before its end, and
\* interruptions between their steps
NextCancelled ==
    \/ /\ turns < MaxInterruptedTurns
       /\ \E input_data \in Inputs : StartTurn(1, input_data)
    \/ ModelToken(1)
    \/ SearchRound(1)
    \/ FinalResponse(1)
    \/ Resume(1)
    \/ CancelYielding(1)
    \/ \E heard_response \in HeardTexts : handle_interrupt(heard_response)

SpecCancelled == Init /\ [][NextCancelled]_vars

\* turns that run to their end and interruptions between their steps
NextPolicy ==
    \/ /\ turns < MaxInterruptedTurns
       /\ \E input_data \in Inputs : StartTurn(1, input_data)
    \/ ModelToken(1)
    \/ SearchRound(1)
    \/ FinalResponse(1)
    \/ Resume(1)
    \/ \E heard_response \in HeardTexts : handle_interrupt(heard_response)

SpecPolicy == InitPolicy /\ [][NextPolicy]_vars

\* turns whose input carries images, that run to their end, and direct
\* calls of _add_message between them
NextImages ==
    \/ /\ turns < MaxInterruptedTurns
       /\ \E input_data \in ImageInputs : StartTurn(1, input_data)
    \/ ModelToken(1)
    \/ SearchRound(1)
    \/ FinalResponse(1)
    \/ Resume(1)
    \/ /\ turn[1].pc \in {"idle", "done"}
       /\ Len(memory) < MaxAppended
       /\ \E i \in 1 .. Len(AddArgs) :
            _add_message(AddArgs[i].message, AddArgs[i].is_list,
                         AddArgs[i].role, AddArgs[i].display_text)

SpecImages == Init /\ [][NextImages]_vars

\* a conversation resumed from a stored history: the load comes first,
\* then turns, group contexts and interrupts in any order; the interrupt
\* flag is not reset
NextHistory ==
    \/ /\ loads = 0
       /\ \E messages \in Histories : set_memory_from_history(messages)
    \/ /\ loads > 0
       /\ turns + groups < MaxMemoryOps
       /\ \/ \E input_data \in Inputs : StartTurn(1, input_data)
          \/ \E human_name \in HumanNames, ai_participants \in AiParticipants :
                start_group_conversation(human_name, ai_participants)
    \/ ModelToken(1)
    \/ SearchRound(1)
    \/ FinalResponse(1)
    \/ Resume(1)
    \/ /\ loads > 0
       /\ \E heard_response \in HeardTexts : handle_interrupt(heard_response)

SpecHistory == Init /\ [][NextHistory]_vars

\* interrupts and resets of the flag around and within turns that run to
\* their end
NextInterruptedTurn ==
    \/ /\ turns < MaxInterruptedTurns
       /\ \E input_data \in Inputs : StartTurn(1, input_data)
    \/ ModelToken(1)
    \/ SearchRound(1)
    \/ FinalResponse(1)
    \/ Resume(1)
    \/ \E heard_response \in HeardTexts : handle_interrupt(heard_response)
    \/ reset_interrupt

SpecInterruptedTurn == Init /\ [][NextInterruptedTurn]_vars

\* turns that run to their end on the model the agent was built with or
\* on one it is given later
NextMalformed ==
    \/ /\ turns < MaxTurns
       /\ \E input_data \in Inputs : StartTurn(1, input_data)
    \/ ModelToken(1)
    \/ SearchRound(1)
    \/ FinalResponse(1)
    \/ Resume(1)
    \/ /\ turn[1].pc \in {"idle", "done"}
       /\ \E new_llm \in Llms : _set_llm(new_llm)

SpecMalformed == Init /\ [][NextMalformed]_vars

Progress ==
    ModelToken(1) \/ SearchRound(1) \/ FinalResponse(1) \/ Resume(1)

NextLive ==
    \/ /\ turns < MaxTurns
       /\ \E input_data \in Inputs : StartTurn(1, input_data)
    \/ ModelToken(1)
    \/ SearchRound(1)
    \/ FinalResponse(1)
    \/ Resume(1)

SpecLive == Init /\ [][NextLive]_vars /\ WF_vars(Progress)

(***************************************************************************)
(* Vocabulary of the properties.                                           *)
(***************************************************************************)
\* the raw output of the i-th model invocation of a frame
OutputOf(f, i) == f.llm_calls[i].output

\* the output holds a directive
HasDirective(s) == search_match(s).found

\* the user message the turn of frame f stored at its start
UserMessage(f) == [role |-> "user", content |-> to_text_prompt(f.input_data)]

AssistantMessage(text) == [role |-> "assistant", content |-> text]

\* the turn of frame f ran to its end
Completed(f) == f.pc = "done"

\* the loop iterations of frame f whose stream was drained and looked at
Decided(f) ==
    IF f.pc \in {"done", "yielding"} \/ (f.pc = "cancelled" /\ f.emitted # << >>)
    THEN Len(f.llm_calls)
    ELSE IF f.llm_calls = << >> THEN 0 ELSE Len(f.llm_calls) - 1

\* the ways the pattern \[SEARCH:\s*(.*?)\] can match at start position i:
\* m[1] characters taken by \s*, the closing bracket at position m[2], the
\* group in between made of characters "." accepts
MatchesAt(s, i) ==
    IF ~TagAt(s, i) THEN {}
    ELSE LET b == i + Len(TagOpen)
         IN  { m \in (0 .. Len(s)) \X (b .. Len(s)) :
                 /\ b + m[1] <= m[2]
                 /\ \A p \in b .. (b + m[1] - 1) : s[p] \in Whitespace
                 /\ s[m[2]] = TagClose
                 /\ \A p \in (b + m[1]) .. (m[2] - 1) : s[p] # Newline }

\* q is the payload of the first directive of s without the whitespace
\* around it: s holds "[SEARCH:" l q r "]" at the leftmost place where a
\* directive starts, l and r whitespace, no closing bracket before the end
IsTrimmedQuery(q, s) ==
    /\ q = << >> \/ (q[1] \notin Whitespace /\ q[Len(q)] \notin Whitespace)
    /\ \E i \in 1 .. Len(s) :
         /\ MatchesAt(s, i) # {}
         /\ \A h \in 1 .. (i - 1) : MatchesAt(s, h) = {}
         /\ \E a \in 0 .. Len(s), b \in 0 .. Len(s) :
              LET from == i + Len(TagOpen)
                  to == from + a + Len(q) + b
              IN  /\ to <= Len(s)
                  /\ s[to] = TagClose
                  /\ \A p \in from .. (to - 1) : s[p] # TagClose
                  /\ \A p \in from .. (from + a - 1) : s[p] \in Whitespace
                  /\ SubSeq(s, from + a, from + a + Len(q) - 1) = q
                  /\ \A p \in (from + a + Len(q)) .. (to - 1) :
                       s[p] \in Whitespace

\* exactly one search round: two model outputs, the first with a directive,
\* the second without
OneSearchRound(f) ==
    /\ enable_web_search
    /\ Len(f.llm_calls) = 2
    /\ HasDirective(OutputOf(f, 1))
    /\ ~HasDirective(OutputOf(f, 2))

\* the model put a directive in every output of the turn
AlwaysDirective(f) ==
    /\ f.llm_calls # << >>
    /\ \A i \in 1 .. Len(f.llm_calls) : HasDirective(OutputOf(f, i))

(***************************************************************************)
(* C1: with web search enabled and a model that emits a directive on       *)
(* every invocation, the output emitted downstream equals the raw output   *)
(* of the final (second) iteration, directive included, and that string is *)
(* the assistant message stored for the turn.                              *)
(***************************************************************************)
C1_CeilingPassThrough ==
    LET f == turn[1]
    IN  (Completed(f) /\ enable_web_search /\ AlwaysDirective(f)
            /\ ~f.foreign)
        => /\ Len(f.llm_calls) = 2
           /\ f.emitted = OutputOf(f, 2)
           /\ memory = f.mem0 \o << UserMessage(f),
                                    AssistantMessage(OutputOf(f, 2)) >>

(***************************************************************************)
(* C2: with the search capability disabled no search call is issued, one   *)
(* model invocation happens, and the finalized text is that invocation's   *)
(* raw output, directive-like text or not.                                 *)
(***************************************************************************)
C2_DisabledNoSearch ==
    LET f == turn[1]
    IN  ~enable_web_search
        => /\ f.search_calls = << >>
           /\ Len(f.llm_calls) <= 1
           /\ Completed(f)
                => /\ Len(f.llm_calls) = 1
                   /\ f.emitted = OutputOf(f, 1)
                   /\ f.complete_response = OutputOf(f, 1)
                   /\ ~f.foreign
                        => memory = f.mem0 \o
                             << UserMessage(f),
                                AssistantMessage(OutputOf(f, 1)) >>

C2_Witness ==
    /\ ~enable_web_search
    /\ Completed(turn[1])
    /\ HasDirective(turn[1].emitted)

(***************************************************************************)
(* C3: with the capability enabled, every iteration whose buffered output  *)
(* holds a directive issues the search call once, with the trimmed query   *)
(* and result count 3; a turn never makes more than 2 search calls, and    *)
(* makes exactly 2 when every output holds a directive.                    *)
(***************************************************************************)
C3_SearchCalls ==
    LET f == turn[1]
    IN  enable_web_search
        => /\ Len(f.search_calls) <= 2
           /\ Len(f.search_calls) =
                Cardinality({ i \in 1 .. Decided(f) :
                                HasDirective(OutputOf(f, i)) })
           /\ \A k \in 1 .. Len(f.search_calls) :
                /\ HasDirective(OutputOf(f, k))
                /\ f.search_calls[k].num_results = 3
                /\ IsTrimmedQuery(f.search_calls[k].query, OutputOf(f, k))
           /\ (Completed(f) /\ AlwaysDirective(f))
                => Len(f.search_calls) = 2

C3_Witness ==
    /\ enable_web_search
    /\ Completed(turn[1])
    /\ AlwaysDirective(turn[1])
    /\ Len(turn[1].search_calls) = 2
    /\ turn[1].search_calls[2].query = <<"q">>

C5_FiveEntries ==
    LET f == turn[1]
    IN  (Completed(f) /\ OneSearchRound(f) /\ ~f.foreign /\ f.mem0 = << >>)
        => /\ Len(memory) = 5
           /\ memory[1].role = "system"
           /\ memory[2] = UserMessage(f)
           /\ memory[3] = AssistantMessage(OutputOf(f, 1))
           /\ memory[4].role = "user"
           /\ memory[5] = AssistantMessage(OutputOf(f, 2))

(***************************************************************************)
(* C6: after one completed turn without a search round on a freshly        *)
(* constructed agent memory is [system, user(input), assistant(output)]:   *)
(* length 3, the input at index 1 and the output at index 2 (from zero).   *)
(***************************************************************************)
C6_FreshTurnMemory ==
    LET f == turn[1]
    IN  (Completed(f) /\ f.search_calls = << >> /\ ~f.foreign
            /\ f.mem0 = << >>)
        => /\ Len(memory) = 3
           /\ memory[1].role = "system"
           /\ memory[2] = UserMessage(f)
           /\ memory[3] = AssistantMessage(f.emitted)

C8_ModelFailure ==
    /\ [](turn[1].pc = "failed"
            => /\ turn[1].emitted = << >>
               /\ ~turn[1].foreign
                    => memory = turn[1].mem0 \o << UserMessage(turn[1]) >>)
    /\ [][turn[1].pc = "failed"
            => \/ turns' = turns + 1
               \/ /\ turn'[1].pc = "failed"
                  /\ turn'[1].llm_calls = turn[1].llm_calls
                  /\ turn'[1].emitted = turn[1].emitted]_vars

C8_Witness ==
    /\ turn[1].pc = "failed"
    /\ Len(turn[1].llm_calls) = 2
    /\ turn[1].raw_llm_output_for_search_check # << >>
    /\ ~turn[1].foreign

(***************************************************************************)
(* C9: when the task of a turn is cancelled while the model output is      *)
(* being buffered, no assistant message, partial or complete, is stored    *)
(* for the turn; the user message stored at its start stays.               *)
(***************************************************************************)
C9_CancelWhileBuffering ==
    LET f == turn[1]
    IN  (f.pc = "cancelled" /\ f.emitted = << >> /\ ~f.foreign)
        => /\ memory = f.mem0 \o << UserMessage(f) >>
           /\ memory[Len(memory)].role = "user"

C9_Witness ==
    /\ turn[1].pc = "cancelled"
    /\ turn[1].emitted = << >>
    /\ turn[1].raw_llm_output_for_search_check # << >>
    /\ turn[1].token_stream # << >>
    /\ ~turn[1].foreign

(***************************************************************************)
(* C10: handle_interrupt called again right after handle_interrupt, with   *)
(* the same or another heard text and no reset_interrupt in between,       *)
(* leaves memory as the first call left it.                                *)
(***************************************************************************)
C10_InterruptIdempotent ==
    [][(interrupt_run >= 1 /\ interrupt_run' = interrupt_run + 1)
          => memory' = memory]_vars

C10_Witness ==
    /\ interrupt_run = 2
    /\ interrupt_handled
    /\ memory # << >>
    /\ memory[Len(memory)].content = InterruptMarker

(***************************************************************************)
(* C11: the interrupt guard is cleared only by reset_interrupt.  Once       *)
(* handle_interrupt has run, every later handle_interrupt leaves memory as  *)
(* it is until reset_interrupt is called, whatever turns, group-context     *)
(* injections or history loads happen in between; the first                 *)
(* handle_interrupt after a reset_interrupt (or after construction)         *)
(* changes memory.                                                          *)
(***************************************************************************)
C11_GuardClearedOnlyByReset ==
    /\ [][(interrupts' = interrupts + 1 /\ handled_since_reset)
            => memory' = memory]_vars
    /\ [][(interrupts' = interrupts + 1 /\ ~handled_since_reset)
            => /\ memory' # memory
               /\ memory'[Len(memory')].content = InterruptMarker]_vars
    /\ [][(interrupt_handled /\ ~interrupt_handled')
            => ~handled_since_reset']_vars

C11_Witness ==
    /\ interrupts = 2
    /\ interrupt_run = 1
    /\ handled_since_reset
    /\ turns + loads + groups = 1
    /\ memory # << >>
    /\ memory[Len(memory)].content # InterruptMarker

(***************************************************************************)
(* C12: after set_memory_from_history on a history of n records memory has *)
(* n+1 entries: entry 0 is the system message with the current system      *)
(* prompt, and entry i+1 has the content of record i and the role user     *)
(* when the record's role is "human", assistant otherwise, in the order of *)
(* the history; nothing of what memory held before is left.                *)
(***************************************************************************)
C12_LoadFromHistory ==
    [][loads' = loads + 1
         => LET history == last_load'.history
            IN  /\ Len(memory') = Len(history) + 1
                /\ memory'[1] = [role |-> "system", content |-> system]
                /\ \A i \in 1 .. Len(history) :
                     memory'[i + 1] =
                        [role |-> IF history[i].role = "human"
                                  THEN "user" ELSE "assistant",
                         content |-> history[i].content]]_vars

C12_Witness ==
    /\ loads = 1
    /\ last_load.replaced # << >>
    /\ Len(last_load.history) = 3
    /\ Len(memory) = 4
    /\ memory[2] = [role |-> "user", content |-> <<"x">>]
    /\ memory[4] = [role |-> "assistant", content |-> <<"z">>]

(***************************************************************************)
(* Vocabulary of the properties of search_web.                             *)
(***************************************************************************)
\* the result entries of a text: the places where a line starts with
\* "Result "
EntryStarts(text) ==
    { i \in 1 .. Len(text) :
        /\ i + Len(ResultOpen) - 1 <= Len(text)
        /\ SubSeq(text, i, i + Len(ResultOpen) - 1) = ResultOpen
        /\ i = 1 \/ text[i - 1] = "\n" }

\* the field of a provider result as the text shows it
Shown(result, key) ==
    IF key \in DOMAIN result THEN result[key] ELSE <<"N","/","A">>

\* the entry the text is to hold for the n-th result, n counted from one
Rendered(n, result) ==
    <<"R","e","s","u","l","t"," ">> \o str_int(n) \o <<":","\n">>
      \o <<"T","i","t","l","e",":"," ">> \o Shown(result, "title")
      \o <<"\n">>
      \o <<"S","n","i","p","p","e","t",":"," ">> \o Shown(result, "body")
      \o <<"\n">>
      \o <<"U","R","L",":"," ">> \o Shown(result, "href") \o <<"\n">>

RECURSIVE RenderedFrom(_, _)
\* the entries for the results from the n-th on, a blank line between two
RenderedFrom(n, results) ==
    IF n > Len(results) THEN << >>
    ELSE IF n = Len(results) THEN Rendered(n, results[n])
    ELSE Rendered(n, results[n]) \o <<"\n">> \o RenderedFrom(n + 1, results)

(***************************************************************************)
(* C13: search_web never raises to its caller: for every query and every   *)
(* provider outcome (result list, empty result set, exception) it returns  *)
(* a text; when the provider raises, the text is "An error occurred during *)
(* the web search: " followed by the exception's message.                  *)
(***************************************************************************)
C13_SearchNeverRaises ==
    search.pc \notin {"idle", "asking"}
      => /\ search.pc = "returned"
         /\ search.outcome.kind = "raise"
              => search.text =
                   <<"A","n"," ","e","r","r","o","r"," ","o","c","c","u","r",
                     "r","e","d"," ","d","u","r","i","n","g"," ","t","h","e",
                     " ","w","e","b"," ","s","e","a","r","c","h",":"," ">>
                   \o search.outcome.message

C13_Witness ==
    /\ search.pc = "returned"
    /\ search.outcome.kind = "raise"
    /\ search.text[Len(search.text)] = "e"

C16_NumResultsRespected ==
    search.pc = "returned"
      => Cardinality(EntryStarts(search.text)) <= search.num_results

(***************************************************************************)
(* Vocabulary of the properties of the search rounds.                      *)
(***************************************************************************)
\* text occurs in content
Embeds(content, text) ==
    \E i \in 1 .. (Len(content) - Len(text) + 1) :
        SubSeq(content, i, i + Len(text) - 1) = text

\* the k-th search call of frame f is followed by a model invocation whose
\* context ends with a user message that holds the call's result
FollowedByModelCall(f, k) ==
    /\ Len(f.llm_calls) >= k + 1
    /\ LET messages == f.llm_calls[k + 1].messages
       IN  /\ messages[Len(messages)].role = "user"
           /\ Embeds(messages[Len(messages)].content,
                     f.search_calls[k].result)

\* the provider found nothing, or failed
NothingFound(outcome) ==
    \/ outcome.kind = "raise"
    \/ outcome.kind = "list" /\ outcome.results = << >>

(***************************************************************************)
(* C14: when the provider returns an empty result set search_web returns   *)
(* exactly "No results found for your query.", and the turn treats this    *)
(* text, like any failure text the search returns, as ordinary context: it *)
(* is embedded in the guidance message appended to the turn context, and   *)
(* the loop goes on with a further model invocation; the turn is not       *)
(* aborted.                                                                *)
(***************************************************************************)
C14_NoResultsIsContext ==
    LET f == turn[1]
    IN  \A k \in 1 .. Len(f.outcomes) :
          NothingFound(f.outcomes[k])
            => /\ k <= Len(f.search_calls)
               /\ f.outcomes[k].kind = "list"
                    => f.search_calls[k].result =
                         <<"N","o"," ","r","e","s","u","l","t","s"," ","f",
                           "o","u","n","d"," ","f","o","r"," ","y","o","u",
                           "r"," ","q","u","e","r","y",".">>
               /\ \E i \in 1 .. Len(f.messages) :
                     /\ f.messages[i].role = "user"
                     /\ Embeds(f.messages[i].content,
                               f.search_calls[k].result)
               /\ FollowedByModelCall(f, k)

(***************************************************************************)
(* C20: the search provider is invoked only when a directive is found and  *)
(* loop iterations remain: every search call of a turn is followed, in the *)
(* same turn, by a further model invocation whose context holds the        *)
(* guidance message built from the call's result; no search result is      *)
(* fetched and then discarded.                                             *)
(***************************************************************************)
C20_NoDiscardedSearch ==
    LET f == turn[1]
    IN  \A k \in 1 .. Len(f.search_calls) :
          /\ HasDirective(OutputOf(f, k))
          /\ FollowedByModelCall(f, k)

(***************************************************************************)
(* Vocabulary of the properties of send_email.                             *)
(***************************************************************************)
\* the calls of the given name made on the connection
CallsNamed(name) == { i \in 1 .. Len(mail.calls) : mail.calls[i].name = name }

\* the connection was opened
Connected ==
    /\ mail.calls # << >>
    /\ mail.calls[1].name \in {"SMTP", "SMTP_SSL"}
    /\ mail.calls[1].outcome = "ok"

\* the call of the given name was made and failed
Failed(name) ==
    \E i \in CallsNamed(name) : mail.calls[i].outcome # "ok"

(***************************************************************************)
(* C17: send_email closes the SMTP connection on failure too: whenever the *)
(* connection was opened and a later step (login or sendmail) fails, quit  *)
(* is still called exactly once on the connection and send_email returns   *)
(* False; after an authentication failure sendmail is never called.        *)
(***************************************************************************)
C17_QuitOnFailure ==
    (mail.pc \in {"returned", "raised"} /\ Connected
        /\ (Failed("login") \/ Failed("sendmail")))
      => /\ Cardinality(CallsNamed("quit")) = 1
         /\ mail.pc = "returned"
         /\ mail.result = FALSE
         /\ Failed("login") => CallsNamed("sendmail") = {}

(***************************************************************************)
(* C18: send_email never raises and returns True only if connect, the      *)
(* optional STARTTLS, the optional login, sendmail and quit all succeeded; *)
(* with an empty host or a zero port it returns False without opening a    *)
(* connection; STARTTLS is issued only when use_ssl is false and the port  *)
(* is 587, and login only when both username and password are set.        *)
(***************************************************************************)
C18_SendEmailResult ==
    /\ mail.pc # "raised"
    /\ (mail.pc = "returned" /\ mail.result)
         => /\ \A i \in 1 .. Len(mail.calls) : mail.calls[i].outcome = "ok"
            /\ Cardinality(CallsNamed("SMTP") \cup CallsNamed("SMTP_SSL")) = 1
            /\ Cardinality(CallsNamed("sendmail")) = 1
            /\ Cardinality(CallsNamed("quit")) = 1
            /\ mail.calls[1].name \in {"SMTP", "SMTP_SSL"}
            /\ mail.calls[Len(mail.calls)].name = "quit"
            /\ mail.calls[Len(mail.calls) - 1].name = "sendmail"
    /\ (mail.pc \in {"smtp", "returned"}
          /\ (mail.host = "" \/ mail.port = 0))
         => /\ mail.pc = "returned"
            /\ ~mail.result
            /\ mail.calls = << >>
    /\ mail.pc \in {"smtp", "returned"}
         => /\ CallsNamed("starttls") # {}
                 => ~mail.use_ssl /\ mail.port = 587
            /\ CallsNamed("login") # {}
                 => /\ mail.username \notin {None, ""}
                    /\ mail.password \notin {None, ""}

C18_Witness ==
    /\ mail.pc = "returned"
    /\ mail.result
    /\ ~mail.use_ssl
    /\ mail.port = 25
    /\ mail.username = None
    /\ Len(mail.calls) = 3

(***************************************************************************)
(* C19: save_conversation_message has no effect on the file system (no     *)
(* directory created, no file opened or copied) when recording is disabled *)
(* or the session id is empty, and it never raises: an error from creating *)
(* the directory, opening a file or copying audio is caught and only       *)
(* logged.  A caller reaches the function through the import of its        *)
(* module, so an exception of that import is one the caller of the         *)
(* function gets.                                                          *)
(***************************************************************************)
C19_RecordingNeverRaises ==
    /\ recording.pc # "raised"
    /\ (recording.pc \in {"fs", "returned"}
          /\ (~recording.recording_config.enable_recording
                \/ recording.session_id = << >>))
         => /\ recording.pc = "returned"
            /\ recording.fs_calls = << >>
    /\ (recording.pc = "returned"
          /\ \E i \in 1 .. Len(recording.fs_calls) :
                recording.fs_calls[i].outcome = "OSError")
         => /\ recording.fs_calls[Len(recording.fs_calls)].outcome = "OSError"
            /\ recording.logged # << >>
            /\ recording.logged[Len(recording.logged)] = "error"

(***************************************************************************)
(* C21: in every completed turn the content of the assistant message       *)
(* appended at the end of the turn is the concatenation, in order, of the  *)
(* fragments emitted downstream during the turn, and the fragments are the *)
(* single characters of the finalized string.                              *)
(***************************************************************************)
C21_StoredIsShown ==
    /\ [][(turn[1].pc # "done" /\ turn'[1].pc = "done")
            => /\ Len(memory') = Len(memory) + 1
               /\ memory'[Len(memory')] = AssistantMessage(turn'[1].emitted)]_vars
    /\ [](Completed(turn[1])
            => /\ Len(turn[1].emitted) = Len(turn[1].complete_response)
               /\ \A i \in 1 .. Len(turn[1].emitted) :
                    turn[1].emitted[i] = turn[1].complete_response[i])

C21_Witness ==
    /\ Completed(turn[1])
    /\ turn[1].emitted = <<"o","k">>
    /\ Len(turn[1].llm_calls) = 2
    /\ memory[Len(memory)] = AssistantMessage(<<"o","k">>)

\* s is the text t starts with
IsPrefix(s, t) == Len(s) <= Len(t) /\ SubSeq(t, 1, Len(s)) = s

C23_UserMessageFirst ==
    /\ [][Len(turn'[1].llm_calls) = 1 /\ turns' = turns + 1
            => memory' = Append(memory, UserMessage(turn'[1]))]_vars
    /\ [](turn[1].llm_calls # << >>
            => /\ Len(memory) > Len(turn[1].mem0)
               /\ memory[Len(turn[1].mem0) + 1] = UserMessage(turn[1]))

C23_Witness ==
    /\ turn[1].pc \in {"failed", "cancelled"}
    /\ Len(turn[1].llm_calls) = 2
    /\ turn[1].mem0 # << >>
    /\ memory[Len(memory)] = UserMessage(turn[1])

\* a step of the turn completes a search round
SearchRoundStep ==
    /\ turns' = turns
    /\ Len(turn'[1].search_calls) = Len(turn[1].search_calls) + 1

Drained(f) ==
    /\ f.pc = "awaiting_model"
    /\ f.token_stream = << >>
    /\ f.raw_llm_output_for_search_check = OutputOf(f, Len(f.llm_calls))

(***************************************************************************)
(* C25: within one turn the model calls and the search calls are strictly  *)
(* sequential: a search call starts only after the preceding model stream  *)
(* was drained, the next model call starts only after that search call     *)
(* returned, and two model calls or two search calls of the turn are never *)
(* in flight at once.                                                      *)
(***************************************************************************)
C25_StrictlySequential ==
    /\ [](LET f == turn[1]
          IN  /\ Len(f.search_calls) <= Len(f.llm_calls)
              /\ Len(f.llm_calls) <= Len(f.search_calls) + 1
              /\ \A k \in 2 .. Len(f.llm_calls) :
                   LET before == f.llm_calls[k - 1].messages
                       given == f.llm_calls[k].messages
                   IN  /\ Len(given) = Len(before) + 2
                       /\ SubSeq(given, 1, Len(before)) = before
                       /\ given[Len(given) - 1] =
                            AssistantMessage(OutputOf(f, k - 1))
                       /\ Embeds(given[Len(given)].content,
                                 f.search_calls[k - 1].result))
    /\ [][Len(turn'[1].outcomes) > Len(turn[1].outcomes)
            => /\ Drained(turn[1])
               /\ Len(turn[1].outcomes) = Len(turn[1].llm_calls) - 1
               /\ Len(turn'[1].outcomes) = Len(turn[1].outcomes) + 1]_vars
    /\ [][(turns' = turns
             /\ Len(turn'[1].llm_calls) > Len(turn[1].llm_calls))
            => /\ Drained(turn[1])
               /\ Len(turn'[1].llm_calls) = Len(turn[1].llm_calls) + 1
               /\ Len(turn'[1].search_calls) = Len(turn[1].llm_calls)]_vars

C25_Witness ==
    /\ Len(turn[1].llm_calls) = 2
    /\ Len(turn[1].search_calls) = 1
    /\ turn[1].outcomes[1].kind = "raise"
    /\ turn[1].pc = "awaiting_model"
    /\ turn[1].token_stream # << >>
    /\ turn[1].raw_llm_output_for_search_check # << >>

(***************************************************************************)
(* C26: the first model invocation of every turn receives exactly the      *)
(* memory as it stood before the turn, verbatim and in insertion order,    *)
(* followed by the new user message; across consecutive completed turns    *)
(* the model therefore sees every earlier user message and finalized       *)
(* assistant message of the conversation, in order.                        *)
(***************************************************************************)
C26_MemoryReplayed ==
    /\ [][turns' = turns + 1
            => turn'[1].llm_calls[1].messages =
                 Append(memory, UserMessage(turn'[1]))]_vars
    /\ [][(turns' = turns + 1 /\ Completed(turn[1]))
            => LET given == turn'[1].llm_calls[1].messages
                   n == Len(turn[1].mem0)
               IN  /\ Len(given) = n + 3
                   /\ SubSeq(given, 1, n) = turn[1].mem0
                   /\ given[n + 1] = UserMessage(turn[1])
                   /\ given[n + 2] =
                        AssistantMessage(turn[1].complete_response)
                   /\ given[n + 3] = UserMessage(turn'[1])]_vars

C26_Witness ==
    /\ turns = 2
    /\ Len(turn[1].llm_calls) = 1
    /\ turn[1].llm_calls[1].messages =
          << [role |-> "user", content |-> <<"h","i">>],
             AssistantMessage(<<"o","k">>),
             UserMessage(turn[1]) >>
    /\ turn[1].input_data.texts[1].content = <<"q","?">>

\* the message that marks an interruption under the configured policy
MarkerMessage ==
    [role |-> IF interrupt_method = "system" THEN "system" ELSE "user",
     content |-> <<"[","I","n","t","e","r","r","u","p","t","e","d"," ",
                   "b","y"," ","u","s","e","r","]">>]

\* mem2 is what the first handle_interrupt(heard) since a reset makes of
\* mem, as the claim describes it
FirstInterrupt(mem, heard, mem2) ==
    LET n == Len(mem)
        said == [role |-> "assistant", content |-> heard \o <<".",".",".">>]
    IN  IF n > 0 /\ mem[n].role = "assistant"
        THEN /\ Len(mem2) = n + 1
             /\ SubSeq(mem2, 1, n - 1) = SubSeq(mem, 1, n - 1)
             /\ mem2[n] = said
             /\ mem2[n + 1] = MarkerMessage
        ELSE IF heard # << >>
             THEN /\ Len(mem2) = n + 2
                  /\ SubSeq(mem2, 1, n) = mem
                  /\ mem2[n + 1] = said
                  /\ mem2[n + 2] = MarkerMessage
             ELSE /\ Len(mem2) = n + 1
                  /\ SubSeq(mem2, 1, n) = mem
                  /\ mem2[n + 1] = MarkerMessage

(***************************************************************************)
(* C27: on its first invocation since the last reset handle_interrupt      *)
(* overwrites the content of a last assistant message with the heard text  *)
(* followed by "..." and adds no assistant message; otherwise it appends a *)
(* new assistant message when the heard text is non-empty and none when it *)
(* is empty; in every case exactly one interruption marker is appended     *)
(* last, so memory grows by 1 or 2 entries and the other entries are       *)
(* unchanged.                                                              *)
(***************************************************************************)
C27_FirstInterrupt ==
    [][(interrupts' = interrupts + 1 /\ ~handled_since_reset)
          => /\ \E heard \in HeardTexts : FirstInterrupt(memory, heard, memory')
             /\ Len(memory') - Len(memory) \in {1, 2}]_vars

C27_Witness ==
    /\ interrupts = 1
    /\ Completed(turn[1])
    /\ turn[1].emitted = <<"o","k">>
    /\ Len(memory) = 3
    /\ memory[2] = AssistantMessage(<<"o",".",".",".">>)
    /\ memory[3] = MarkerMessage

\* the log that holds the system message and nothing else
SeededWith(text) == << [role |-> "system", content |-> text] >>

(***************************************************************************)
(* C28: set_system (reset_with_system) clears the log and seeds it with a  *)
(* single system message: after it runs, at construction or later, memory  *)
(* consists of exactly one entry, the system message with the new system   *)
(* text.                                                                   *)
(***************************************************************************)
C28_SetSystemSeedsMemory ==
    /\ memory = SeededWith(system)
    /\ [][system' # system => memory' = SeededWith(system')]_vars

(***************************************************************************)
(* C29: after a load from history the system message stays the first       *)
(* element of memory in every reachable state: no sequence of turns,       *)
(* interrupts and group-context injections removes it, moves it or puts a  *)
(* message before it.                                                      *)
(***************************************************************************)
C29_SystemStaysFirst ==
    /\ [](loads > 0
            => /\ memory # << >>
               /\ memory[1] = [role |-> "system", content |-> system])
    /\ [][loads > 0
            => /\ Len(memory') >= Len(memory)
               /\ memory'[1] = memory[1]]_vars

C29_Witness ==
    /\ loads = 1
    /\ last_load.history # << >>
    /\ Completed(turn[1])
    /\ interrupts = 2
    /\ memory[1].role = "system"
    /\ memory[5] = MarkerMessage
    /\ memory[Len(memory)].role = "assistant"
    /\ Len(memory) = 7

\* the text looks like a directive and is none: the tag without a closing
\* bracket after it, or the tag in another letter case
Malformed(s) ==
    \/ /\ \E i \in 1 .. Len(s) :
            /\ i + 7 <= Len(s)
            /\ SubSeq(s, i, i + 7) = <<"[","S","E","A","R","C","H",":">>
       /\ \A i \in 1 .. Len(s) : s[i] # "]"
    \/ /\ \E i \in 1 .. Len(s) :
            /\ i + 7 <= Len(s)
            /\ SubSeq(s, i, i + 7) = <<"[","s","e","a","r","c","h",":">>
       /\ \A i \in 1 .. Len(s) : s[i] # "S"

(***************************************************************************)
(* C30: a malformed directive ("[SEARCH: query" with no closing bracket,   *)
(* or the tag in another letter case such as "[search: q]") does not match *)
(* and is treated like no directive: no search call is issued and the raw  *)
(* text is finalized, emitted and stored as the assistant message.         *)
(***************************************************************************)
C30_MalformedIsNoDirective ==
    LET f == turn[1]
    IN  /\ \A k \in 1 .. Len(f.llm_calls) :
             Malformed(OutputOf(f, k))
               => /\ k = Len(f.llm_calls)
                  /\ Len(f.search_calls) < k
                  /\ Len(f.outcomes) < k
        /\ (Completed(f) /\ f.llm_calls # << >>
              /\ Malformed(OutputOf(f, Len(f.llm_calls))))
             => /\ f.emitted = OutputOf(f, Len(f.llm_calls))
                /\ f.complete_response = OutputOf(f, Len(f.llm_calls))
                /\ memory[Len(memory)] =
                     AssistantMessage(OutputOf(f, Len(f.llm_calls)))

C30_Witness ==
    /\ enable_web_search
    /\ Completed(turn[1])
    /\ Len(turn[1].llm_calls) = 1
    /\ turn[1].emitted = <<"[","s","e","a","r","c","h",":"," ","q","]">>
    /\ turn[1].search_calls = << >>
    /\ memory[Len(memory)].content = turn[1].emitted

\* the positions of s where a tag stands that a closing bracket follows
\* later
DirectivesOf(s) ==
    { i \in 1 .. Len(s) :
        /\ i + 7 <= Len(s)
        /\ SubSeq(s, i, i + 7) = <<"[","S","E","A","R","C","H",":">>
        /\ \E e \in (i + 8) .. Len(s) : s[e] = "]" }

\* the text between the colon of the first tag of s and the first closing
\* bracket after it
FirstPayload(s) ==
    LET i == CHOOSE j \in DirectivesOf(s) : \A h \in DirectivesOf(s) : j <= h
        e == CHOOSE j \in (i + 8) .. Len(s) :
               /\ s[j] = "]"
               /\ \A h \in (i + 8) .. (j - 1) : s[h] # "]"
    IN  SubSeq(s, i + 8, e - 1)

\* q is t without the blanks at its two ends
TrimOf(q, t) ==
    /\ q = << >> \/ (q[1] # " " /\ q[Len(q)] # " ")
    /\ \E a \in 0 .. Len(t) :
         /\ a + Len(q) <= Len(t)
         /\ SubSeq(t, a + 1, a + Len(q)) = q
         /\ \A h \in (1 .. a) \cup ((a + Len(q) + 1) .. Len(t)) : t[h] = " "

\* C31: with search enabled, an iteration whose buffered output holds
\* several directives makes exactly one search call, and the query of that
\* call is the text between the colon of the first directive and the first
\* closing bracket after it, without the whitespace at its two ends; no
\* iteration makes more than one search call.
C31_FirstDirectiveOnly ==
    LET f == turn[1]
    IN  enable_web_search
        => /\ Len(f.search_calls) <= Decided(f)
           /\ \A k \in 1 .. Decided(f) :
                Cardinality(DirectivesOf(OutputOf(f, k))) >= 2
                  => /\ k <= MAX_SEARCH_ITERATIONS
                     /\ Len(f.search_calls) >= k
                     /\ \A h \in 1 .. (k - 1) :
                          DirectivesOf(OutputOf(f, h)) # {}
                     /\ TrimOf(f.search_calls[k].query,
                               FirstPayload(OutputOf(f, k)))

C31_Witness ==
    /\ enable_web_search
    /\ Completed(turn[1])
    /\ Len(turn[1].llm_calls) = 2
    /\ Cardinality(DirectivesOf(OutputOf(turn[1], 1))) = 2
    /\ Len(turn[1].search_calls) = 1
    /\ turn[1].search_calls[1].query = <<"q">>
    /\ turn[1].emitted = <<"o","k">>

\* the outputs that are a directive without a payload
BlankDirective(s) ==
    /\ Len(s) >= 9
    /\ SubSeq(s, 1, 8) = <<"[","S","E","A","R","C","H",":">>
    /\ s[Len(s)] = "]"
    /\ \A h \in 9 .. (Len(s) - 1) : s[h] = " "

\* C40: with search enabled, an output that is a directive with an empty or
\* blank payload is a directive: once the iteration is decided a search
\* call with the empty query was made for it, the text is not shown, and
\* the model is asked again with the guidance message unless the ceiling
\* was reached.
C40_EmptyQuerySearched ==
    LET f == turn[1]
    IN  enable_web_search
        => \A k \in 1 .. Decided(f) :
             BlankDirective(OutputOf(f, k))
               => /\ Len(f.search_calls) >= k
                  /\ f.search_calls[k].query = << >>
                  /\ f.search_calls[k].num_results = 3
                  /\ f.emitted # OutputOf(f, k)
                  /\ k < MAX_SEARCH_ITERATIONS => Len(f.llm_calls) > k

C40_Witness ==
    /\ enable_web_search
    /\ Completed(turn[1])
    /\ Len(turn[1].llm_calls) = 2
    /\ OutputOf(turn[1], 1) = <<"[","S","E","A","R","C","H",":"," "," "," ","]">>
    /\ Len(turn[1].search_calls) = 1
    /\ turn[1].search_calls[1].query = << >>
    /\ turn[1].emitted = <<"o","k">>

\* the message _add_message is to store for the arguments a: the role, the
\* texts of the text parts one after the other when the message is a list,
\* and the name and the avatar that are given and not empty
StoredFor(a) ==
    LET texts == SelectSeq(a.message, LAMBDA p : p.type = "text")
        concat[n \in 0 .. Len(texts)] ==
            IF n = 0 THEN << >> ELSE concat[n - 1] \o texts[n].text
        fields == {"role", "content"}
                    \cup (IF a.display_text.given /\ a.display_text.name # << >>
                          THEN {"name"} ELSE {})
                    \cup (IF a.display_text.given
                               /\ a.display_text.avatar # << >>
                          THEN {"avatar"} ELSE {})
    IN  [k \in fields |->
           CASE k = "role" -> a.role
             [] k = "content" -> IF a.is_list THEN concat[Len(texts)]
                                 ELSE a.message
             [] k = "name" -> a.display_text.name
             [] k = "avatar" -> a.display_text.avatar]

\* the step is a call of _add_message on its own
DirectAppend == memory' # memory /\ turn' = turn

\* the content is a list of parts: the text first and then the images of
\* the input, in their order
KeepsImages(content, input_data) ==
    /\ Len(content) = 1 + Len(input_data.images)
    /\ content[1].type = "text"
    /\ \A i \in 1 .. Len(input_data.images) :
         /\ content[i + 1].type = "image_url"
         /\ content[i + 1].image_url.url = input_data.images[i].data

\* C32: a call of _add_message adds exactly one message at the end of
\* memory and changes nothing before it; a list of parts is stored as the
\* texts of its text parts one after the other, the image parts being
\* dropped; name and avatar are stored only when they are given and not
\* empty. A turn whose input has images stores a user message whose
\* content is the text alone, while the context of the turn, and every
\* model call of it, holds the list with the image parts.
C32_Appended ==
    [][/\ DirectAppend
          => \E i \in 1 .. Len(AddArgs) :
               /\ Len(memory') = Len(memory) + 1
               /\ SubSeq(memory', 1, Len(memory)) = memory
               /\ DOMAIN memory'[Len(memory')] = DOMAIN StoredFor(AddArgs[i])
               /\ \A k \in DOMAIN StoredFor(AddArgs[i]) :
                    memory'[Len(memory')][k] = StoredFor(AddArgs[i])[k]
       /\ (turns' = turns + 1 /\ turn'[1].input_data.images # << >>)
          => LET f == turn'[1]
                 at == Len(memory) + 1
             IN  /\ Len(memory') = Len(memory) + 1
                 /\ SubSeq(memory', 1, Len(memory)) = memory
                 /\ KeepsImages(f.messages[at].content, f.input_data)
                 /\ DOMAIN memory'[at] = {"role", "content"}
                 /\ memory'[at].role = "user"
                 /\ memory'[at].content = f.messages[at].content[1].text
                 /\ \A k \in 1 .. Len(f.llm_calls) :
                      f.llm_calls[k].messages[at].content
                        = f.messages[at].content]_vars

\* a turn with two images is done after a search round, and a list with an
\* image part between two texts was stored with a name and no avatar
C32_Witness ==
    /\ Completed(turn[1])
    /\ Len(turn[1].input_data.images) = 2
    /\ Len(turn[1].llm_calls) = 2
    /\ KeepsImages(turn[1].llm_calls[2].messages[Len(turn[1].mem0) + 1].content,
                   turn[1].input_data)
    /\ Len(turn[1].mem0) = 1
    /\ DOMAIN memory[1] = {"role", "content", "name"}
    /\ memory[1].content = <<"a","b">>
    /\ Len(memory) = 3
    /\ DOMAIN memory[2] = {"role", "content"}

\* C33: the message a handling call of handle_interrupt leaves at the end
\* of memory has the content "[Interrupted by user]"; its role is system
\* when the interrupt policy is "system", and user for every other value
\* of the policy.
C33_MarkerRole ==
    [][(interrupts' = interrupts + 1 /\ ~interrupt_handled)
          => LET m == memory'[Len(memory')]
             IN  /\ Len(memory') > Len(memory)
                 /\ DOMAIN m = {"role", "content"}
                 /\ m.content = <<"[","I","n","t","e","r","r","u","p","t","e",
                                  "d"," ","b","y"," ","u","s","e","r","]">>
                 /\ m.role = "system" <=> interrupt_method = "system"
                 /\ interrupt_method # "system" => m.role = "user"]_vars

C33_Witness ==
    /\ interrupt_method \notin {"user", "system"}
    /\ interrupts = 1
    /\ turn[1].pc = "yielding"
    /\ Len(memory) = 3
    /\ memory[2].role = "assistant"
    /\ memory[3].role = "user"
    /\ memory[3].content = InterruptMarker

InFlight(f) == f.pc \in {"awaiting_model", "yielding"}

\* C36: a call of handle_interrupt that is handled while a turn is in
\* flight finds a last message that is not an assistant message (the
\* user message of the turn, when it is the first one of that turn) and
\* changes no message: it adds the heard text, when there is one, as a new
\* assistant message, and the marker. When the turn then completes, its
\* final assistant message is added after the marker, so memory reads
\* user, (assistant heard...), marker, assistant.
C36_InterruptInFlight ==
    /\ [][(interrupts' = interrupts + 1 /\ ~interrupt_handled
             /\ InFlight(turn[1]))
            => /\ memory[Len(memory)].role # "assistant"
               /\ ~turn[1].foreign => memory[Len(memory)] = UserMessage(turn[1])
               /\ SubSeq(memory', 1, Len(memory)) = memory
               /\ \E heard \in HeardTexts :
                    memory' =
                      memory \o (IF heard # << >>
                                 THEN << AssistantMessage(heard
                                            \o <<".",".",".">>) >>
                                 ELSE << >>)
                             \o << MarkerMessage >>]_vars
    /\ [][(InFlight(turn[1]) /\ turn'[1].pc = "done")
            => memory' = Append(memory,
                                AssistantMessage(turn'[1].complete_response))]_vars
    /\ [](LET f == turn[1]
              n == Len(f.mem0)
              last == Len(memory)
          IN  (Completed(f) /\ f.foreign
                 /\ memory[last].content # MarkerMessage.content)
                => /\ last >= n + 3
                   /\ memory[n + 1] = UserMessage(f)
                   /\ memory[last] = AssistantMessage(f.complete_response)
                   /\ memory[last - 1] = MarkerMessage
                   /\ \A i \in (n + 2) .. (last - 1) :
                        \/ memory[i] = MarkerMessage
                        \/ /\ memory[i].role = "assistant"
                           /\ memory[i + 1] = MarkerMessage)

C36_Witness ==
    /\ Completed(turn[1])
    /\ interrupts = 1
    /\ turn[1].mem0 = << >>
    /\ Len(memory) = 4
    /\ memory[1] = UserMessage(turn[1])
    /\ memory[2] = AssistantMessage(<<"o",".",".",".">>)
    /\ memory[3] = MarkerMessage
    /\ memory[4] = AssistantMessage(<<"o","k">>)

\* the consumer stopped taking the response of the turn after a part of it
StoppedConsuming(f) == f.pc = "cancelled" /\ f.emitted # << >>

\* C37: when the consumer stops taking the response before its end, the
\* turn stores no assistant message although a part of the text was shown:
\* the step leaves memory as it is, and afterwards every assistant message
\* the turn's part of memory holds is a heard text followed by the marker.
\* A handle_interrupt that is handled then changes no message: it adds the
\* heard text, when there is one, as a new assistant message, and the
\* marker.
C37_StoppedConsumerStoresNothing ==
    /\ [][(turn[1].pc = "yielding" /\ turn'[1].pc = "cancelled")
            => /\ memory' = memory
               /\ turn[1].emitted # << >>
               /\ Len(turn[1].emitted)
                    <= Len(turn[1].raw_llm_output_for_search_check)]_vars
    /\ [](StoppedConsuming(turn[1])
            => \A i \in (Len(turn[1].mem0) + 1) .. Len(memory) :
                 memory[i].role = "assistant"
                   => /\ i < Len(memory)
                      /\ memory[i + 1] = MarkerMessage
                      /\ memory[i].content
                           # turn[1].raw_llm_output_for_search_check
                      /\ memory[i].content # turn[1].emitted)
    /\ [][(interrupts' = interrupts + 1 /\ ~interrupt_handled
             /\ StoppedConsuming(turn[1]))
            => /\ memory[Len(memory)].role # "assistant"
               /\ \E heard \in HeardTexts :
                    memory' =
                      memory \o (IF heard # << >>
                                 THEN << AssistantMessage(heard
                                            \o <<".",".",".">>) >>
                                 ELSE << >>)
                             \o << MarkerMessage >>]_vars

C37_Witness ==
    /\ StoppedConsuming(turn[1])
    /\ turn[1].emitted = <<"o">>
    /\ turn[1].raw_llm_output_for_search_check = <<"o","k">>
    /\ turn[1].foreign
    /\ interrupts = 1
    /\ Len(memory) = 3
    /\ memory[1] = UserMessage(turn[1])
    /\ memory[2] = AssistantMessage(<<"o",".",".",".">>)
    /\ memory[3] = MarkerMessage

\* the other task
Other(t) == CHOOSE o \in {1, 2} : o # t

\* C38: when the turns of two tasks interleave on one agent, no step
\* removes or changes a message of memory; once both turns are completed
\* memory holds the user message and the final assistant message of each
\* turn exactly once, each user message before the assistant message of
\* its turn, and nothing else; and the turn that started second has the
\* user message of the first in its context and in every model call.
C38_NoLostUpdate ==
    /\ [][SubSeq(memory', 1, Len(memory)) = memory]_vars
    /\ []((Completed(turn[1]) /\ Completed(turn[2]))
            => /\ Len(memory) = 4
               /\ \E u \in [{1, 2} -> 1 .. 4], a \in [{1, 2} -> 1 .. 4] :
                    /\ {u[1], u[2], a[1], a[2]} = 1 .. 4
                    /\ \A t \in {1, 2} :
                         /\ u[t] < a[t]
                         /\ memory[u[t]] = UserMessage(turn[t])
                         /\ memory[a[t]]
                              = AssistantMessage(turn[t].complete_response))
    /\ [](\A t \in {1, 2} :
            (turn[t].pc # "idle" /\ turn[t].mem0 # << >>)
              => /\ turn[Other(t)].pc # "idle"
                 /\ turn[Other(t)].mem0 = << >>
                 /\ turn[t].messages[1] = UserMessage(turn[Other(t)])
                 /\ \A k \in 1 .. Len(turn[t].llm_calls) :
                      turn[t].llm_calls[k].messages[1]
                        = UserMessage(turn[Other(t)]))

\* the two turns are completed; the second started while the first was
\* in flight and ended before it
C38_Witness ==
    /\ Completed(turn[1])
    /\ Completed(turn[2])
    /\ turn[1].mem0 = << >>
    /\ Len(turn[2].mem0) = 1
    /\ memory[1] = UserMessage(turn[1])
    /\ memory[2] = UserMessage(turn[2])
    /\ memory[3] = AssistantMessage(turn[2].complete_response)
    /\ memory[4] = AssistantMessage(turn[1].complete_response)
    /\ turn[1].input_data # turn[2].input_data
    /\ turn[1].complete_response = <<"o","k">>
    /\ turn[2].complete_response = << >>

\* C39: no turn, handle_interrupt, reset_interrupt, set_system or
\* group-context injection makes memory shorter, and the only message
\* such a step changes is the last one, when it is an assistant message
\* and the step is a handle_interrupt that is handled: its content is
\* rewritten and its role stays.
C39_AppendOnly ==
    [][/\ Len(memory') >= Len(memory)
       /\ \A i \in 1 .. Len(memory) :
            memory'[i] # memory[i]
              => /\ i = Len(memory)
                 /\ memory[i].role = "assistant"
                 /\ memory'[i].role = "assistant"
                 /\ interrupts' = interrupts + 1
                 /\ ~interrupt_handled
                 /\ Len(memory') = Len(memory) + 1]_vars

\* the assistant message of the turn was rewritten by a first
\* interruption; after a reset a second one appended, and the system
\* prompt was replaced
C39_Witness ==
    /\ Completed(turn[1])
    /\ turn[1].complete_response = <<"o","k">>
    /\ interrupts = 2
    /\ system = system_for(<<"T">>, interrupt_method)
    /\ Len(memory) = 5
    /\ memory[2] = AssistantMessage(<<"o",".",".",".">>)
    /\ memory[3] = MarkerMessage
    /\ memory[5] = MarkerMessage

====
